---------------------------- MODULE Spec2Model ----------------------------
(***************************************************************************)
(* The symbol table of the ELF linker (SymbolTable.cpp): the name-keyed    *)
(* store of Symbols, the precedence rules applied to every contribution,   *)
(* lazy fetches of archive members and lazy objects, --wrap renaming and   *)
(* version-script processing.  And the in-memory log of XRay               *)
(* (xray_inmemory_log.cc): thread-local buffers of records written to one  *)
(* log file.                                                               *)
(***************************************************************************)
EXTENDS Integers, Sequences, FiniteSets, TLC

(* ------------------------------ bounds -------------------------------- *)
\* operations (top-level calls on the table) per behaviour
MaxOps == 3

\* records a thread-local buffer of the XRay log holds (1024 in the code)
BuffLen == 2

\* records one thread logs per behaviour
MaxRecords == 3

(* ------------------------- ELF / LLD constants ------------------------ *)
STB_GLOBAL == 1
STB_WEAK == 2
STV_DEFAULT == 0
STV_INTERNAL == 1
STV_HIDDEN == 2
STV_PROTECTED == 3
STT_NOTYPE == 0
STT_OBJECT == 1
STT_TLS == 6
UnknownType == 255
VER_NDX_LOCAL == 0
VER_NDX_GLOBAL == 1
StOtherMask == 4

Null == "null"

VARIABLES
  Symtab,       \* DenseMap name -> SymIndex {Idx, Traced}
  SymVector,    \* std::vector<Symbol *>, insertion order
  ErrorCount,   \* number of error() calls so far
  Seen,         \* members / lazy objects already handed out by fetch()
  ObjectFiles, SharedFiles, BitcodeFiles, BinaryFiles,
  SoNames,      \* sonames of the DSOs added so far
  IsUsed,       \* SharedFile::IsUsed, as the set of DSOs marked
  DemangledSyms, \* Optional<StringMap<...>>: demangled name -> Symbols
  Config,       \* the link's configuration (fixed at start)
  xray,         \* the XRay log: the threads, their buffers, the log file
  log,          \* history: the contributions applied by the last operation
  hist,         \* history: summary of the contributions applied so far
  nops          \* history: operations performed

vars == <<Symtab, SymVector, ErrorCount, Seen, ObjectFiles, SharedFiles,
          BitcodeFiles, BinaryFiles, SoNames, IsUsed, DemangledSyms, Config, xray,
          log, hist, nops>>

(* ------------------------------ Symbols ------------------------------- *)
\* SymbolBody and its subclasses, as one record; Kind is the SymbolKind.
mkBody(Kind, Name, Type, StOther, Value, Size, Alignment, Section, File) ==
  [Kind |-> Kind, Name |-> Name, Type |-> Type, StOther |-> StOther,
   Value |-> Value, Size |-> Size, Alignment |-> Alignment,
   Section |-> Section, File |-> File]

\* the body of a Symbol that make<Symbol>() has just created
NoBody == mkBody("None", "", STT_NOTYPE, 0, 0, 0, 0, Null, Null)

Undefined(Name, StOther, Type, File) ==
  mkBody("Undefined", Name, Type, StOther, 0, 0, 0, Null, File)

DefinedRegular(Name, StOther, Type, Value, Size, Section, File) ==
  mkBody("DefinedRegular", Name, Type, StOther, Value, Size, 0, Section, File)

DefinedCommon(N, Size, Alignment, StOther, Type, File) ==
  mkBody("DefinedCommon", N, Type, StOther, 0, Size, Alignment, Null, File)

DefinedSynthetic(N, Value, Section) ==
  mkBody("DefinedSynthetic", N, STT_NOTYPE, STV_HIDDEN, Value, 0, 0, Section, Null)

SharedSymbol(File, Name, StOther, Type) ==
  mkBody("Shared", Name, Type, StOther, 0, 0, 0, Null, File)

LazyArchive(File, Sym, Type) ==
  mkBody("LazyArchive", Sym, Type, 0, 0, 0, 0, Null, File)

LazyObject(Name, Obj, Type) ==
  mkBody("LazyObject", Name, Type, 0, 0, 0, 0, Null, Obj)

isUndefined(B) == B.Kind = "Undefined"
isShared(B) == B.Kind = "Shared"
isLazy(B) == B.Kind \in {"LazyArchive", "LazyObject"}
isCommon(B) == B.Kind = "DefinedCommon"
isDefined(B) == B.Kind \in {"DefinedRegular", "Shared", "DefinedCommon", "DefinedSynthetic"}
isInCurrentDSO(B) == ~isUndefined(B) /\ ~isShared(B)
isTls(B) == B.Type = STT_TLS

\* struct Symbol; key is the name the Symbol was created for (history)
mkSymbol(key, Traced, VersionId) ==
  [key |-> key, Binding |-> STB_WEAK, Visibility |-> STV_DEFAULT,
   VersionId |-> VersionId, InVersionScript |-> FALSE,
   IsUsedInRegularObj |-> FALSE, ExportDynamic |-> FALSE,
   Traced |-> Traced, Body |-> NoBody]

NoSym == mkSymbol("", FALSE, 0)

isWeak(S) == S.Binding = STB_WEAK

SymIndex(Idx, Traced) == [Idx |-> Idx, Traced |-> Traced]

\* the Symbol at index Idx (0-based, as in the source) of table t
SymAt(t, Idx) == t.SymVector[Idx + 1]

SetSym(t, Idx, S) == [t EXCEPT !.SymVector[Idx + 1] = S]

\* replaceBody<T>(S, ...): a new body constructed in the Symbol's buffer
replaceBody(t, Idx, B) == [t EXCEPT !.SymVector[Idx + 1].Body = B]

(* ---------------------------- diagnostics ----------------------------- *)
error(t, msg) ==
  [t EXCEPT !.ErrorCount = @ + 1,
            !.out = Append(@, [sev |-> "error", msg |-> msg])]

warn(t, msg) == [t EXCEPT !.out = Append(@, [sev |-> "warning", msg |-> msg])]

print(t, msg) == IF Config.AllowMultipleDefinition THEN warn(t, msg) ELSE error(t, msg)


(* --------------------- history of applied contributions --------------- *)
\* one call of an add* method: its arguments, the Symbol before and after
mkC(op, Name, Binding, StOther, Type, Value, Size, Alignment, Section, File) ==
  [op |-> op, Name |-> Name, Binding |-> Binding, StOther |-> StOther,
   Type |-> Type, Value |-> Value, Size |-> Size, Alignment |-> Alignment,
   Section |-> Section, File |-> File]

hasSlot(t, Name) == Name \in DOMAIN t.Symtab /\ t.Symtab[Name].Idx # -1

SlotOf(t, Name) == SymAt(t, t.Symtab[Name].Idx)

preSym(t, Name) == IF hasSlot(t, Name) THEN SlotOf(t, Name) ELSE NoSym

\* the comparator did not run
NoCmp == 2

\* what a call left alone: the name table, the Symbols, the Symbols other
\* than the one at index Idx (0-based; -1 for none), the file lists
sameAs(t0, t, Idx) ==
  [tab |-> t0.Symtab = t.Symtab,
   syms |-> t0.SymVector = t.SymVector,
   others |-> /\ Len(t.SymVector) >= Len(t0.SymVector)
              /\ \A i \in 1..Len(t0.SymVector) :
                   i # Idx + 1 => t.SymVector[i] = t0.SymVector[i],
   files |-> /\ t0.ObjectFiles = t.ObjectFiles /\ t0.SharedFiles = t.SharedFiles
             /\ t0.BitcodeFiles = t.BitcodeFiles /\ t0.BinaryFiles = t.BinaryFiles]

\* t0 is the table when the call started, t the table after the call's own
\* effect (before any file the call fetches is added); Cmp is the outcome of
\* the comparison the call made
logAll(t0, t, c, WasInserted, fetched, Cmp) ==
  [t EXCEPT !.log = Append(@,
     [c |-> c, WasInserted |-> WasInserted, Cmp |-> Cmp,
      pre |-> preSym(t0, c.Name), mid |-> preSym(t0, c.Name),
      post |-> preSym(t, c.Name),
      idx0 |-> IF hasSlot(t0, c.Name) THEN t0.Symtab[c.Name].Idx ELSE -1,
      idx1 |-> IF hasSlot(t, c.Name) THEN t.Symtab[c.Name].Idx ELSE -1,
      size0 |-> Len(t0.SymVector), size1 |-> Len(t.SymVector),
      diags |-> SubSeq(t.out, Len(t0.out) + 1, Len(t.out)),
      err0 |-> t0.ErrorCount, err1 |-> t.ErrorCount,
      fetched |-> fetched, syms |-> << >>, ret |-> Null,
      same |-> Null])]

logEv(t0, t, c, WasInserted, fetched) == logAll(t0, t, c, WasInserted, fetched, NoCmp)

\* the event with what the call left alone
withSame(t0, t1) ==
  [t1 EXCEPT !.log[Len(t1.log)].same =
     sameAs(t0, t1, IF hasSlot(t0, t1.log[Len(t1.log)].c.Name)
                    THEN t0.Symtab[t1.log[Len(t1.log)].c.Name].Idx ELSE -1)]

\* a call that made a comparison; a call that lost it keeps what it left alone
logCmp(t0, t, c, WasInserted, Cmp) ==
  IF Cmp = -1 THEN withSame(t0, logAll(t0, t, c, WasInserted, Null, Cmp))
  ELSE logAll(t0, t, c, WasInserted, Null, Cmp)

\* a call that is no contribution: op(Name), from table t0 to table t
logCall(t0, t, op, Name) ==
  withSame(t0, logEv(t0, t, mkC(op, Name, STB_GLOBAL, 0, STT_NOTYPE, 0, 0, 0, Null, Null),
                     FALSE, Null))

(* --------------------------- input files ------------------------------ *)
\* The inputs of the link.  lib.a is an archive whose symbol table offers
\* foo, bar and __wrap_foo, one member each; lazy.o is a lazy object file
\* defining foo; the members come into being when fetch() extracts them.
TopFiles == {"main.o", "lib.a", "lazy.o", "libc.so", "lto.bc", "blob.bin", "alien.o"}

MemberFiles == {"lib.a(foo.o)", "lib.a(bar.o)", "lib.a(wrap.o)", "lazy.o(obj)"}

\* a second shared library, whose symbols reach the table by addShared
OtherDSO == "libm.so"

\* inputs for other targets: alien.* are MIPS o32, n32.o is MIPS n32, elf32.o
\* is a 32-bit x86-64 (x32) object
AlienFiles == {"alien.o", "n32.o", "elf32.o", "alien.so", "alien.bc"}

\* the native object the LTO backend compiles the bitcode files to
LTOObject == "lto.o"

FileKind(F) ==
  CASE F \in {"main.o", "alien.o", "n32.o", "elf32.o", "x.o", LTOObject} \cup MemberFiles
         -> "ObjectKind"
    [] F = "lib.a" -> "ArchiveKind"
    [] F = "lazy.o" -> "LazyObjectKind"
    [] F \in {"libc.so", "libm.so", "alien.so"} -> "SharedKind"
    [] F \in {"lto.bc", "alien.bc"} -> "BitcodeKind"
    [] F = "blob.bin" -> "BinaryKind"

\* InputFile::EKind: ELF class and endianness of an input
FileEKind(F) == IF F = "elf32.o" THEN "ELF32LEKind" ELSE "ELF64LEKind"

\* InputFile::EMachine
FileEMachine(F) ==
  IF F \in {"alien.o", "n32.o", "alien.so", "alien.bc"} THEN "EM_MIPS" ELSE "EM_X86_64"

\* isMipsN32Abi(F): the EF_MIPS_ABI2 flag of the ELF header
isMipsN32Abi(F) == F = "n32.o"

\* the archive member that defines Sym (Archive::Symbol::getMember)
MemberOf(Sym) ==
  CASE Sym = "foo" -> "lib.a(foo.o)"
    [] Sym = "bar" -> "lib.a(bar.o)"
    [] Sym = "__wrap_foo" -> "lib.a(wrap.o)"

ArchiveSyms == <<"foo", "bar", "__wrap_foo">>

LazyObjectSyms == <<"foo">>

\* what parsing a file contributes, in order: each entry is one add* call
FileSyms(F) ==
  CASE F = "main.o" ->
         << mkC("addUndefined", "foo", STB_GLOBAL, STV_DEFAULT, STT_NOTYPE, 0, 0, 0, Null, F),
            mkC("addRegular", "bar", STB_GLOBAL, STV_DEFAULT, STT_OBJECT, 1, 0, 0, ".text", F) >>
    [] F = "lib.a(foo.o)" ->
         << mkC("addRegular", "foo", STB_GLOBAL, STV_DEFAULT, STT_OBJECT, 0, 0, 0, ".text", F),
            mkC("addUndefined", "bar", STB_GLOBAL, STV_DEFAULT, STT_NOTYPE, 0, 0, 0, Null, F) >>
    [] F = "lib.a(bar.o)" ->
         << mkC("addRegular", "bar", STB_GLOBAL, STV_HIDDEN, STT_OBJECT, 0, 0, 0, ".text", F),
            mkC("addUndefined", "foo", STB_GLOBAL, STV_DEFAULT, STT_NOTYPE, 0, 0, 0, Null, F) >>
    [] F = "lib.a(wrap.o)" ->
         << mkC("addRegular", "__wrap_foo", STB_GLOBAL, STV_DEFAULT, STT_OBJECT, 0, 0, 0, ".text", F),
            mkC("addUndefined", "foo", STB_GLOBAL, STV_DEFAULT, STT_NOTYPE, 0, 0, 0, Null, F) >>
    [] F = "lazy.o(obj)" ->
         << mkC("addRegular", "foo", STB_WEAK, STV_DEFAULT, STT_OBJECT, 1, 0, 0, ".text", F),
            mkC("addCommon", "bar", STB_GLOBAL, STV_DEFAULT, STT_OBJECT, 0, 8, 4, Null, F) >>
    [] F = "libc.so" ->
         << mkC("addShared", "foo", STB_GLOBAL, STV_DEFAULT, STT_OBJECT, 0, 0, 0, Null, F) >>
    [] F = "lto.bc" ->
         << mkC("addBitcode", "foo", STB_GLOBAL, STV_DEFAULT, STT_OBJECT, 0, 0, 0, Null, F) >>
    [] F = "blob.bin" ->
         << mkC("addRegular", "bar", STB_GLOBAL, STV_DEFAULT, STT_OBJECT, 0, 0, 0, ".data", F) >>
    [] F \in {"alien.o", "n32.o", "elf32.o", LTOObject} ->
         << mkC("addRegular", "foo", STB_GLOBAL, STV_DEFAULT, STT_OBJECT, 0, 0, 0, ".text", F) >>
    [] F = "alien.so" ->
         << mkC("addShared", "foo", STB_GLOBAL, STV_DEFAULT, STT_OBJECT, 0, 0, 0, Null, F) >>
    [] F = "alien.bc" ->
         << mkC("addBitcode", "foo", STB_GLOBAL, STV_DEFAULT, STT_OBJECT, 0, 0, 0, Null, F) >>

SoName(F) ==
  CASE F = "libc.so" -> "libc.so.6"
    [] F = "libm.so" -> "libm.so.6"
    [] OTHER -> "libalien.so.1"

(* ------------------------------ the store ----------------------------- *)
\* v bound to a name: F(v), with v evaluated once
Let(v, F(_)) == CHOOSE r \in {F(a) : a \in {v}} : TRUE

\* SymbolTable::trace
trace(t, Name) ==
  IF Name \in DOMAIN t.Symtab THEN t
  ELSE [t EXCEPT !.Symtab = (Name :> SymIndex(-1, TRUE)) @@ @]

\* getMinVisibility giving the visibility of the newer contribution
getMinVisibilityNewest(VA, VB) == VB

getMinVisibility(VA, VB) ==
  IF VA = STV_DEFAULT THEN VB
  ELSE IF VB = STV_DEFAULT THEN VA
  ELSE IF VA < VB THEN VA ELSE VB

\* insert() putting a new Symbol at the head of SymVector
insertAtHead(t, Name) ==
  Let(Name \in DOMAIN t.Symtab, LAMBDA found :
  Let(IF found THEN t.Symtab[Name] ELSE SymIndex(0, FALSE), LAMBDA V0 :
  Let(IF V0.Idx = -1 THEN SymIndex(0, TRUE) ELSE V0, LAMBDA V :
    IF ~found \/ V0.Idx = -1
    THEN [t |-> [t EXCEPT !.Symtab = (Name :> V) @@ @,
                          !.SymVector = <<mkSymbol(Name, V.Traced,
                                                   Config.DefaultSymbolVersion)>> \o @],
          S |-> V.Idx, IsNew |-> TRUE]
    ELSE [t |-> t, S |-> V.Idx, IsNew |-> FALSE])))

\* insert() taking every traced name for one that has no Symbol yet
insertTracedNew(t, Name) ==
  Let(Len(t.SymVector), LAMBDA size :
  Let(Name \in DOMAIN t.Symtab, LAMBDA found :
    IF ~found \/ t.Symtab[Name].Traced
    THEN [t |-> [t EXCEPT !.Symtab = (Name :> SymIndex(size, found)) @@ @,
                          !.SymVector = Append(@, mkSymbol(Name, found,
                                                  Config.DefaultSymbolVersion))],
          S |-> size, IsNew |-> TRUE]
    ELSE [t |-> t, S |-> t.Symtab[Name].Idx, IsNew |-> FALSE]))

\* insert() creating the Symbol of a traced name as that of any other name
insertForgetsTrace(t, Name) ==
  Let(Len(t.SymVector), LAMBDA size :
  Let(Name \in DOMAIN t.Symtab, LAMBDA found :
    IF ~found \/ t.Symtab[Name].Idx = -1
    THEN [t |-> [t EXCEPT !.Symtab = (Name :> SymIndex(size, FALSE)) @@ @,
                          !.SymVector = Append(@, mkSymbol(Name, FALSE,
                                                  Config.DefaultSymbolVersion))],
          S |-> size, IsNew |-> TRUE]
    ELSE [t |-> t, S |-> t.Symtab[Name].Idx, IsNew |-> FALSE]))

\* SymbolTable::insert(StringRef): find an existing symbol or create one
insert(t, Name) ==
  Let(Len(t.SymVector), LAMBDA size :
  Let(Name \in DOMAIN t.Symtab, LAMBDA found :
  Let(IF found THEN t.Symtab[Name] ELSE SymIndex(size, FALSE), LAMBDA V0 :
  Let(IF V0.Idx = -1 THEN SymIndex(size, TRUE) ELSE V0, LAMBDA V :
    IF ~found \/ V0.Idx = -1
    THEN [t |-> [t EXCEPT !.Symtab = (Name :> V) @@ @,
                          !.SymVector = Append(@, mkSymbol(Name, V.Traced,
                                                  Config.DefaultSymbolVersion))],
          S |-> V.Idx, IsNew |-> TRUE]
    ELSE [t |-> t, S |-> V.Idx, IsNew |-> FALSE]))))

\* the attributes insert() merges into the Symbol
mergeAttrs(S0, Visibility, CanOmitFromDynSym, IsUsedInRegularObj) ==
  [S0 EXCEPT
     !.Visibility = getMinVisibility(@, Visibility),
     !.ExportDynamic =
        IF ~CanOmitFromDynSym /\ (Config.Shared \/ Config.ExportDynamic) THEN TRUE ELSE @,
     !.IsUsedInRegularObj = IF IsUsedInRegularObj THEN TRUE ELSE @]

\* insert(Name, Type, ...) reporting the TLS mismatch as duplicates are
insertAttrsTlsPrint(t, Name, Type, Visibility, CanOmitFromDynSym, File) ==
  Let(insert(t, Name), LAMBDA r :
  Let(mergeAttrs(SymAt(r.t, r.S), Visibility, CanOmitFromDynSym,
                 File = Null \/ FileKind(File) = "ObjectKind"), LAMBDA S1 :
  Let(SetSym(r.t, r.S, S1), LAMBDA t1 :
    [t |-> IF ~r.IsNew /\ S1.Body.Type # UnknownType
              /\ ((Type = STT_TLS) # isTls(S1.Body))
           THEN print(t1, "TLS attribute mismatch") ELSE t1,
     S |-> r.S, WasInserted |-> r.IsNew])))

\* SymbolTable::insert(Name, Type, Visibility, CanOmitFromDynSym, File)
insertAttrs(t, Name, Type, Visibility, CanOmitFromDynSym, File) ==
  Let(insert(t, Name), LAMBDA r :
  Let(mergeAttrs(SymAt(r.t, r.S), Visibility, CanOmitFromDynSym,
                 File = Null \/ FileKind(File) = "ObjectKind"), LAMBDA S1 :
  Let(SetSym(r.t, r.S, S1), LAMBDA t1 :
    [t |-> IF ~r.IsNew /\ S1.Body.Type # UnknownType
              /\ ((Type = STT_TLS) # isTls(S1.Body))
           THEN error(t1, "TLS attribute mismatch") ELSE t1,
     S |-> r.S, WasInserted |-> r.IsNew])))

getVisibility(StOther) == StOther % StOtherMask

\* find taking the entry trace() made for a Symbol
findTraced(t, Name) ==
  IF Name \notin DOMAIN t.Symtab THEN NoBody
  ELSE IF t.Symtab[Name].Idx = -1 THEN Undefined(Name, STV_DEFAULT, STT_NOTYPE, Null)
  ELSE SymAt(t, t.Symtab[Name].Idx).Body

\* SymbolTable::find
find(t, Name) ==
  IF Name \notin DOMAIN t.Symtab THEN NoBody
  ELSE IF t.Symtab[Name].Idx = -1 THEN NoBody
  ELSE SymAt(t, t.Symtab[Name].Idx).Body

(* ------------------------- precedence rules --------------------------- *)
\* compareDefined without the test for lazy and not locally defined symbols
compareDefinedNoLazy(S, WasInserted, Binding) ==
  IF WasInserted THEN 1
  ELSE IF Binding = STB_WEAK THEN -1
  ELSE IF isWeak(S) THEN 1
  ELSE 0

\* compareDefined letting the definition that came first stay
compareDefinedKeepsFirst(S, WasInserted, Binding) ==
  IF WasInserted THEN 1
  ELSE IF isLazy(S.Body) \/ ~isInCurrentDSO(S.Body) THEN 1
  ELSE IF Binding = STB_WEAK \/ isWeak(S) THEN -1
  ELSE 0

\* 1: the new symbol wins, -1: it loses, 0: both are strong definitions
compareDefined(S, WasInserted, Binding) ==
  IF WasInserted THEN 1
  ELSE IF isLazy(S.Body) \/ ~isInCurrentDSO(S.Body) THEN 1
  ELSE IF Binding = STB_WEAK THEN -1
  ELSE IF isWeak(S) THEN 1
  ELSE 0

\* compareDefinedNonCommon taking any two absolute symbols for the same one
compareDefinedNonCommonAnyValue(S, WasInserted, Binding, IsAbsolute, Value) ==
  Let(compareDefined(S, WasInserted, Binding), LAMBDA Cmp :
    IF Cmp # 0
    THEN [Cmp |-> Cmp, Binding |-> IF Cmp > 0 THEN Binding ELSE S.Binding,
          warnCommon |-> FALSE]
    ELSE IF S.Body.Kind = "DefinedCommon"
    THEN [Cmp |-> 1, Binding |-> S.Binding, warnCommon |-> Config.WarnCommon]
    ELSE IF S.Body.Kind = "DefinedRegular" /\ S.Body.Section = Null
            /\ Binding = STB_GLOBAL /\ IsAbsolute
    THEN [Cmp |-> -1, Binding |-> S.Binding, warnCommon |-> FALSE]
    ELSE [Cmp |-> 0, Binding |-> S.Binding, warnCommon |-> FALSE])

\* compareDefinedNonCommon without the rule for common symbols
compareDefinedNonCommonNoCommon(S, WasInserted, Binding, IsAbsolute, Value) ==
  Let(compareDefined(S, WasInserted, Binding), LAMBDA Cmp :
    IF Cmp # 0
    THEN [Cmp |-> Cmp, Binding |-> IF Cmp > 0 THEN Binding ELSE S.Binding,
          warnCommon |-> FALSE]
    ELSE IF S.Body.Kind = "DefinedRegular" /\ S.Body.Section = Null
            /\ Binding = STB_GLOBAL /\ IsAbsolute /\ S.Body.Value = Value
    THEN [Cmp |-> -1, Binding |-> S.Binding, warnCommon |-> FALSE]
    ELSE [Cmp |-> 0, Binding |-> S.Binding, warnCommon |-> FALSE])

\* compareDefinedNonCommon giving the Symbol the new binding whoever wins
compareDefinedNonCommonRebinds(S, WasInserted, Binding, IsAbsolute, Value) ==
  Let(compareDefined(S, WasInserted, Binding), LAMBDA Cmp :
    IF Cmp # 0
    THEN [Cmp |-> Cmp, Binding |-> Binding, warnCommon |-> FALSE]
    ELSE IF S.Body.Kind = "DefinedCommon"
    THEN [Cmp |-> 1, Binding |-> S.Binding, warnCommon |-> Config.WarnCommon]
    ELSE IF S.Body.Kind = "DefinedRegular" /\ S.Body.Section = Null
            /\ Binding = STB_GLOBAL /\ IsAbsolute /\ S.Body.Value = Value
    THEN [Cmp |-> -1, Binding |-> S.Binding, warnCommon |-> FALSE]
    ELSE [Cmp |-> 0, Binding |-> S.Binding, warnCommon |-> FALSE])

\* the comparison for a non-common definition: [Cmp, Binding of S afterwards,
\* whether the "common is overridden" warning is due]
compareDefinedNonCommon(S, WasInserted, Binding, IsAbsolute, Value) ==
  Let(compareDefined(S, WasInserted, Binding), LAMBDA Cmp :
    IF Cmp # 0
    THEN [Cmp |-> Cmp, Binding |-> IF Cmp > 0 THEN Binding ELSE S.Binding,
          warnCommon |-> FALSE]
    ELSE IF S.Body.Kind = "DefinedCommon"
    THEN [Cmp |-> 1, Binding |-> S.Binding, warnCommon |-> Config.WarnCommon]
    ELSE IF S.Body.Kind = "DefinedRegular" /\ S.Body.Section = Null
            /\ Binding = STB_GLOBAL /\ IsAbsolute /\ S.Body.Value = Value
    THEN [Cmp |-> -1, Binding |-> S.Binding, warnCommon |-> FALSE]
    ELSE [Cmp |-> 0, Binding |-> S.Binding, warnCommon |-> FALSE])

\* the effect of compareDefinedNonCommon on the table
applyCompare(t, Idx, r) ==
  IF r.warnCommon
  THEN warn([t EXCEPT !.SymVector[Idx + 1].Binding = r.Binding], "common is overridden")
  ELSE [t EXCEPT !.SymVector[Idx + 1].Binding = r.Binding]

\* reportDuplicate(Existing, NewFile)
reportDuplicate(t) == print(t, "duplicate symbol")

\* reportDuplicate<ELFT>(Existing, ErrSec, ErrOffset)
reportDuplicateAt(t, Existing, ErrSec) ==
  IF Existing.Kind # "DefinedRegular" \/ Existing.Section = Null \/ ErrSec = Null
  THEN reportDuplicate(t)
  ELSE print(print(t, "duplicate symbol"), "previous definition was here")

(* ------------------------- adding contributions ----------------------- *)
\* isCompatible without the test of the MIPS N32 ABI
isCompatibleAnyAbi(F) ==
  IF FileKind(F) \notin {"ObjectKind", "SharedKind", "BitcodeKind"} THEN TRUE
  ELSE FileEKind(F) = Config.EKind /\ FileEMachine(F) = Config.EMachine

\* All input object files must be for the same architecture
isCompatible(F) ==
  IF FileKind(F) \notin {"ObjectKind", "SharedKind", "BitcodeKind"} THEN TRUE
  ELSE IF FileEKind(F) = Config.EKind /\ FileEMachine(F) = Config.EMachine
          /\ (Config.EMachine # "EM_MIPS" \/ isMipsN32Abi(F) = Config.MipsN32Abi)
  THEN TRUE
  ELSE FALSE

\* ArchiveFile::getMember / LazyObjectFile::getBuffer: the file behind a lazy
\* symbol, or Null when it was handed out before
getMember(t, M) ==
  IF M \in t.Seen THEN [t |-> t, F |-> Null]
  ELSE [t |-> [t EXCEPT !.Seen = @ \cup {M}], F |-> M]

\* Lazy::fetch()
fetch(t, B) ==
  getMember(t, IF B.Kind = "LazyArchive" THEN MemberOf(B.Name) ELSE "lazy.o(obj)")

\* A call that fetches a file ends with addFile(F): it leaves F in
\* t.pending, and the file is added before anything else happens (parse).
fetched(t0, f, c) ==
  IF f.F = Null THEN logEv(t0, f.t, c, FALSE, Null)
  ELSE [logEv(t0, f.t, c, FALSE, f.F) EXCEPT !.pending = f.F]

\* addUndefined on a Symbol that exists, a weak lazy symbol keeping its type
addUndefinedOldKeepsType(t, t1, Idx, S0, c) ==
  Let(IF c.Binding # STB_WEAK /\ (isShared(S0.Body) \/ isLazy(S0.Body))
      THEN [S0 EXCEPT !.Binding = c.Binding] ELSE S0, LAMBDA S1 :
  Let(IF c.Binding # STB_WEAK /\ isShared(S1.Body)
      THEN [SetSym(t1, Idx, S1) EXCEPT !.IsUsed = @ \cup {S1.Body.File}]
      ELSE SetSym(t1, Idx, S1), LAMBDA t2 :
    IF ~isLazy(S1.Body) \/ isWeak(S1) THEN logEv(t, t2, c, FALSE, Null)
    ELSE fetched(t, fetch(t2, S1.Body), c)))

\* addUndefined on a Symbol that exists: S0 is the Symbol, t1 the table
addUndefinedOld(t, t1, Idx, S0, c) ==
  Let(IF c.Binding # STB_WEAK /\ (isShared(S0.Body) \/ isLazy(S0.Body))
      THEN [S0 EXCEPT !.Binding = c.Binding] ELSE S0, LAMBDA S1 :
  Let(IF c.Binding # STB_WEAK /\ isShared(S1.Body)
      THEN [SetSym(t1, Idx, S1) EXCEPT !.IsUsed = @ \cup {S1.Body.File}]
      ELSE SetSym(t1, Idx, S1), LAMBDA t2 :
    IF ~isLazy(S1.Body) THEN logEv(t, t2, c, FALSE, Null)
    ELSE IF isWeak(S1)
    THEN logEv(t, [t2 EXCEPT !.SymVector[Idx + 1].Body.Type = c.Type], c, FALSE, Null)
    ELSE fetched(t, fetch(t2, S1.Body), c)))

\* SymbolTable::addUndefined(Name, IsLocal, Binding, StOther, Type,
\*                           CanOmitFromDynSym, File)
addUndefined(t, Name, IsLocal, Binding, StOther, Type, CanOmitFromDynSym, File) ==
  Let(mkC("addUndefined", Name, Binding, StOther, Type, 0, 0, 0, Null, File), LAMBDA c :
  Let(insertAttrs(t, Name, Type, getVisibility(StOther), CanOmitFromDynSym, File),
      LAMBDA r :
    IF r.WasInserted
    THEN logEv(t, replaceBody([r.t EXCEPT !.SymVector[r.S + 1].Binding = Binding],
                              r.S, Undefined(Name, StOther, Type, File)),
               c, TRUE, Null)
    ELSE addUndefinedOld(t, r.t, r.S, SymAt(r.t, r.S), c)))

\* SymbolTable::addUndefined(Name)
addUndefinedName(t, Name) ==
  addUndefined(t, Name, FALSE, STB_GLOBAL, STV_DEFAULT, STT_NOTYPE, FALSE, Null)

max(a, b) == IF a > b THEN a ELSE b

\* the merge of two common symbols taking the alignment of the larger one
mergeCommonNoMax(t, t1, Idx, C, c) ==
  IF ~isCommon(C)
  THEN logCmp(t, IF Config.WarnCommon THEN warn(t1, "common is overridden") ELSE t1,
             c, FALSE, 0)
  ELSE Let(IF Config.WarnCommon THEN warn(t1, "multiple common") ELSE t1, LAMBDA t2 :
         IF c.Size > C.Size
         THEN logCmp(t, replaceBody(t2, Idx,
                         DefinedCommon(c.Name, c.Size, c.Alignment, c.StOther, c.Type,
                                       c.File)),
                    c, FALSE, 0)
         ELSE logCmp(t, t2, c, FALSE, 0))

\* addCommon when both symbols are strong definitions (Cmp == 0)
mergeCommon(t, t1, Idx, C, c) ==
  IF ~isCommon(C)
  THEN logCmp(t, IF Config.WarnCommon THEN warn(t1, "common is overridden") ELSE t1,
             c, FALSE, 0)
  ELSE Let(IF Config.WarnCommon THEN warn(t1, "multiple common") ELSE t1, LAMBDA t2 :
       Let(max(C.Alignment, c.Alignment), LAMBDA A :
         IF c.Size > C.Size
         THEN logCmp(t, replaceBody(t2, Idx,
                         DefinedCommon(c.Name, c.Size, A, c.StOther, c.Type, c.File)),
                    c, FALSE, 0)
         ELSE logCmp(t, [t2 EXCEPT !.SymVector[Idx + 1].Body.Alignment = A],
                    c, FALSE, 0)))

\* SymbolTable::addCommon
addCommon(t, N, Size, Alignment, Binding, StOther, Type, File) ==
  Let(mkC("addCommon", N, Binding, StOther, Type, 0, Size, Alignment, Null, File),
      LAMBDA c :
  Let(insertAttrs(t, N, Type, getVisibility(StOther), FALSE, File), LAMBDA r :
  Let(compareDefined(SymAt(r.t, r.S), r.WasInserted, Binding), LAMBDA Cmp :
    IF Cmp > 0
    THEN logCmp(t, replaceBody([r.t EXCEPT !.SymVector[r.S + 1].Binding = Binding], r.S,
                              DefinedCommon(N, Size, Alignment, StOther, Type, File)),
               c, r.WasInserted, Cmp)
    ELSE IF Cmp = 0 THEN mergeCommon(t, r.t, r.S, SymAt(r.t, r.S).Body, c)
    ELSE logCmp(t, r.t, c, FALSE, Cmp))))

\* SymbolTable::addRegular
addRegular(t, Name, StOther, Type, Value, Size, Binding, Section, File) ==
  Let(mkC("addRegular", Name, Binding, StOther, Type, Value, Size, 0, Section, File),
      LAMBDA c :
  Let(insertAttrs(t, Name, Type, getVisibility(StOther), FALSE, File), LAMBDA r :
  Let(compareDefinedNonCommon(SymAt(r.t, r.S), r.WasInserted, Binding,
                              Section = Null, Value), LAMBDA cmp :
  Let(applyCompare(r.t, r.S, cmp), LAMBDA t1 :
    IF cmp.Cmp > 0
    THEN logCmp(t, replaceBody(t1, r.S,
                    DefinedRegular(Name, StOther, Type, Value, Size, Section, File)),
               c, r.WasInserted, cmp.Cmp)
    ELSE IF cmp.Cmp = 0
    THEN logCmp(t, reportDuplicateAt(t1, SymAt(t1, r.S).Body, Section), c, FALSE, cmp.Cmp)
    ELSE logCmp(t, t1, c, FALSE, cmp.Cmp)))))

\* SymbolTable::addAbsolute
addAbsolute(t, Name, Visibility, Binding) ==
  addRegular(t, Name, Visibility, STT_NOTYPE, 0, 0, Binding, Null, Null)

\* SymbolTable::addIgnored: an absolute symbol defined only if needed
addIgnored(t, Name, Visibility) ==
  IF ~hasSlot(t, Name) \/ isInCurrentDSO(find(t, Name)) THEN t
  ELSE addAbsolute(t, Name, Visibility, STB_GLOBAL)

\* SymbolTable::addSynthetic
addSynthetic(t, N, Section, Value, StOther) ==
  Let(mkC("addSynthetic", N, STB_GLOBAL, StOther, STT_NOTYPE, Value, 0, 0, Section, Null),
      LAMBDA c :
  Let(insertAttrs(t, N, STT_NOTYPE, getVisibility(StOther), FALSE, Null), LAMBDA r :
  Let(compareDefinedNonCommon(SymAt(r.t, r.S), r.WasInserted, STB_GLOBAL, FALSE, 0),
      LAMBDA cmp :
  Let(applyCompare(r.t, r.S, cmp), LAMBDA t1 :
    IF cmp.Cmp > 0
    THEN logCmp(t, replaceBody(t1, r.S, DefinedSynthetic(N, Value, Section)),
               c, r.WasInserted, cmp.Cmp)
    ELSE IF cmp.Cmp = 0 THEN logCmp(t, reportDuplicate(t1), c, FALSE, cmp.Cmp)
    ELSE logCmp(t, t1, c, FALSE, cmp.Cmp)))))

\* addShared replacing lazy symbols as well
addSharedOverLazy(t, File, Name, StOther, Type) ==
  Let(mkC("addShared", Name, STB_GLOBAL, StOther, Type, 0, 0, 0, Null, File), LAMBDA c :
  Let(insertAttrs(t, Name, Type, STV_DEFAULT, TRUE, File), LAMBDA r :
    IF r.WasInserted \/ isUndefined(SymAt(r.t, r.S).Body) \/ isLazy(SymAt(r.t, r.S).Body)
    THEN logEv(t, replaceBody(r.t, r.S, SharedSymbol(File, Name, StOther, Type)),
               c, r.WasInserted, Null)
    ELSE logEv(t, r.t, c, FALSE, Null)))

\* addShared exporting the Symbol only when the DSO's symbol becomes its body
addSharedExportsInstalled(t, File, Name, StOther, Type) ==
  Let(mkC("addShared", Name, STB_GLOBAL, StOther, Type, 0, 0, 0, Null, File), LAMBDA c :
  Let(insertAttrs(t, Name, Type, STV_DEFAULT, TRUE, File), LAMBDA r :
    IF r.WasInserted \/ isUndefined(SymAt(r.t, r.S).Body)
    THEN Let(IF getVisibility(StOther) = STV_DEFAULT
             THEN [r.t EXCEPT !.SymVector[r.S + 1].ExportDynamic = TRUE] ELSE r.t,
             LAMBDA t1 :
           logEv(t, IF ~isWeak(SymAt(t1, r.S))
                    THEN [replaceBody(t1, r.S, SharedSymbol(File, Name, StOther, Type))
                            EXCEPT !.IsUsed = @ \cup {File}]
                    ELSE replaceBody(t1, r.S, SharedSymbol(File, Name, StOther, Type)),
                 c, r.WasInserted, Null))
    ELSE logEv(t, r.t, c, FALSE, Null)))

\* addShared marking the library used whatever the binding of the Symbol
addSharedAlwaysUsed(t, File, Name, StOther, Type) ==
  Let(mkC("addShared", Name, STB_GLOBAL, StOther, Type, 0, 0, 0, Null, File), LAMBDA c :
  Let(insertAttrs(t, Name, Type, STV_DEFAULT, TRUE, File), LAMBDA r :
  Let(IF getVisibility(StOther) = STV_DEFAULT
      THEN [r.t EXCEPT !.SymVector[r.S + 1].ExportDynamic = TRUE] ELSE r.t, LAMBDA t1 :
    IF r.WasInserted \/ isUndefined(SymAt(t1, r.S).Body)
    THEN logEv(t, [replaceBody(t1, r.S, SharedSymbol(File, Name, StOther, Type))
                     EXCEPT !.IsUsed = @ \cup {File}],
               c, r.WasInserted, Null)
    ELSE logEv(t, t1, c, FALSE, Null))))

\* SymbolTable::addShared; StOther and Type are those of the DSO's Elf_Sym
addShared(t, File, Name, StOther, Type) ==
  Let(mkC("addShared", Name, STB_GLOBAL, StOther, Type, 0, 0, 0, Null, File), LAMBDA c :
  Let(insertAttrs(t, Name, Type, STV_DEFAULT, TRUE, File), LAMBDA r :
  Let(IF getVisibility(StOther) = STV_DEFAULT
      THEN [r.t EXCEPT !.SymVector[r.S + 1].ExportDynamic = TRUE] ELSE r.t, LAMBDA t1 :
    IF r.WasInserted \/ isUndefined(SymAt(t1, r.S).Body)
    THEN logEv(t, IF ~isWeak(SymAt(t1, r.S))
                  THEN [replaceBody(t1, r.S, SharedSymbol(File, Name, StOther, Type))
                          EXCEPT !.IsUsed = @ \cup {File}]
                  ELSE replaceBody(t1, r.S, SharedSymbol(File, Name, StOther, Type)),
               c, r.WasInserted, Null)
    ELSE logEv(t, t1, c, FALSE, Null))))

\* SymbolTable::addBitcode
addBitcode(t, Name, Binding, StOther, Type, CanOmitFromDynSym, F) ==
  Let(mkC("addBitcode", Name, Binding, StOther, Type, 0, 0, 0, Null, F), LAMBDA c :
  Let(insertAttrs(t, Name, Type, getVisibility(StOther), CanOmitFromDynSym, F),
      LAMBDA r :
  Let(compareDefinedNonCommon(SymAt(r.t, r.S), r.WasInserted, Binding, FALSE, 0),
      LAMBDA cmp :
  Let(applyCompare(r.t, r.S, cmp), LAMBDA t1 :
    IF cmp.Cmp > 0
    THEN logCmp(t, replaceBody(t1, r.S, DefinedRegular(Name, StOther, Type, 0, 0, Null, F)),
               c, r.WasInserted, cmp.Cmp)
    ELSE IF cmp.Cmp = 0 THEN logCmp(t, reportDuplicate(t1), c, FALSE, cmp.Cmp)
    ELSE logCmp(t, t1, c, FALSE, cmp.Cmp)))))

\* addLazyArchive / addLazyObject fetching for weak references as well
addLazyWeakFetches(t, r, c, B, M) ==
  IF r.IsNew THEN logEv(t, replaceBody(r.t, r.S, B), c, TRUE, Null)
  ELSE IF ~isUndefined(SymAt(r.t, r.S).Body) THEN logEv(t, r.t, c, FALSE, Null)
  ELSE fetched(t, getMember(r.t, M), c)

\* addLazyArchive / addLazyObject on the Symbol insert() returned; B is the
\* lazy body for a new Symbol, M the file behind the lazy symbol
addLazy(t, r, c, B, M) ==
  IF r.IsNew THEN logEv(t, replaceBody(r.t, r.S, B), c, TRUE, Null)
  ELSE IF ~isUndefined(SymAt(r.t, r.S).Body) THEN logEv(t, r.t, c, FALSE, Null)
  ELSE IF isWeak(SymAt(r.t, r.S))
  THEN logEv(t, replaceBody(r.t, r.S, [B EXCEPT !.Type = SymAt(r.t, r.S).Body.Type]),
             c, FALSE, Null)
  ELSE fetched(t, getMember(r.t, M), c)

\* SymbolTable::addLazyArchive
addLazyArchive(t, F, Sym) ==
  Let(insert(t, Sym), LAMBDA r :
    addLazy(t, r, mkC("addLazyArchive", Sym, STB_WEAK, 0, UnknownType, 0, 0, 0, Null, F),
            LazyArchive(F, Sym, UnknownType), MemberOf(Sym)))

\* SymbolTable::addLazyObject
addLazyObject(t, Name, Obj) ==
  Let(insert(t, Name), LAMBDA r :
    addLazy(t, r, mkC("addLazyObject", Name, STB_WEAK, 0, UnknownType, 0, 0, 0, Null, Obj),
            LazyObject(Name, Obj, UnknownType), "lazy.o(obj)"))

\* one symbol of a file being parsed, handed to the table
addContribution(t, c) ==
  CASE c.op = "addUndefined" ->
         addUndefined(t, c.Name, FALSE, c.Binding, c.StOther, c.Type, FALSE, c.File)
    [] c.op = "addRegular" ->
         addRegular(t, c.Name, c.StOther, c.Type, c.Value, c.Size, c.Binding, c.Section, c.File)
    [] c.op = "addCommon" ->
         addCommon(t, c.Name, c.Size, c.Alignment, c.Binding, c.StOther, c.Type, c.File)
    [] c.op = "addShared" -> addShared(t, c.File, c.Name, c.StOther, c.Type)
    [] c.op = "addBitcode" ->
         addBitcode(t, c.Name, c.Binding, c.StOther, c.Type, FALSE, c.File)
    [] c.op = "addLazyArchive" -> addLazyArchive(t, c.File, c.Name)
    [] c.op = "addLazyObject" -> addLazyObject(t, c.Name, c.File)

\* the symbols an archive or a lazy object offers, as lazy contributions
lazySyms(op, F, names) ==
  [i \in 1..Len(names) |-> mkC(op, names[i], STB_WEAK, 0, UnknownType, 0, 0, 0, Null, F)]

\* SymbolTable::addFile up to the call of File->parse(): the table, and the
\* symbols parse() is about to contribute
openFile(t, File) ==
  IF ~isCompatible(File)
  THEN [t |-> error(t, "is incompatible with"), syms |-> << >>]
  ELSE CASE FileKind(File) = "BinaryKind" ->
              [t |-> [t EXCEPT !.BinaryFiles = Append(@, File)], syms |-> FileSyms(File)]
         [] FileKind(File) = "ArchiveKind" ->
              [t |-> t, syms |-> lazySyms("addLazyArchive", File, ArchiveSyms)]
         [] FileKind(File) = "LazyObjectKind" ->
              [t |-> t, syms |-> lazySyms("addLazyObject", File, LazyObjectSyms)]
         [] FileKind(File) = "SharedKind" ->
              IF t.ErrorCount # 0 \/ SoName(File) \in t.SoNames
              THEN [t |-> t, syms |-> << >>]
              ELSE [t |-> [t EXCEPT !.SoNames = @ \cup {SoName(File)},
                                    !.SharedFiles = Append(@, File)],
                    syms |-> FileSyms(File)]
         [] FileKind(File) = "BitcodeKind" ->
              [t |-> [t EXCEPT !.BitcodeFiles = Append(@, File)], syms |-> FileSyms(File)]
         [] FileKind(File) = "ObjectKind" ->
              [t |-> [t EXCEPT !.ObjectFiles = Append(@, File)], syms |-> FileSyms(File)]

\* the event of an addFile call: the file, what the call did before parse()
\* and the symbols parse() is about to contribute
logFile(t0, o, File) ==
  [withSame(t0, logEv(t0, o.t, mkC("addFile", "", STB_GLOBAL, 0, STT_NOTYPE, 0, 0, 0,
                                   Null, File), FALSE, Null))
     EXCEPT !.log[Len(o.t.log) + 1].syms = o.syms]

\* parse with a fetched file's symbols contributed after those of the files
\* that are being parsed
RECURSIVE parseBreadthFirst(_, _)
parseBreadthFirst(t, todo) ==
  IF t.pending # Null
  THEN Let(openFile([t EXCEPT !.pending = Null], t.pending), LAMBDA o :
         parseBreadthFirst(logFile(t, o, t.pending), todo \o o.syms))
  ELSE IF todo = << >> THEN t
  ELSE Let(addContribution(t, Head(todo)), LAMBDA t1 : parseBreadthFirst(t1, Tail(todo)))

\* InputFile::parse and the calls nested in it: todo holds the symbols still
\* to contribute, those of the innermost file being parsed first.  A
\* contribution that fetches a file has that file parsed before the next one.
RECURSIVE parse(_, _)
parse(t, todo) ==
  IF t.pending # Null
  THEN Let(openFile([t EXCEPT !.pending = Null], t.pending), LAMBDA o :
         parse(logFile(t, o, t.pending), o.syms \o todo))
  ELSE IF todo = << >> THEN t
  ELSE Let(addContribution(t, Head(todo)), LAMBDA t1 : parse(t1, Tail(todo)))

\* SymbolTable::addFile
addFile(t, File) == parse([t EXCEPT !.pending = File], << >>)

\* the event of one name of the -u list, with the files extracted so far
logFlag(t0, t1) == [t1 EXCEPT !.log[Len(t1.log)].ret = [seen |-> t0.Seen]]

\* one name of the -u list, fetching for strong lazy symbols only
scanUndefinedNameStrongOnly(t, Name) ==
  IF ~isLazy(find(t, Name)) \/ isWeak(SlotOf(t, Name))
  THEN logFlag(t, logCall(t, t, "scanUndefinedFlags", Name))
  ELSE logFlag(t, fetched(t, fetch(t, find(t, Name)),
                          mkC("scanUndefinedFlags", Name, STB_GLOBAL, 0, STT_NOTYPE,
                              0, 0, 0, Null, Null)))

\* the body of the loop of scanUndefinedFlags: a name whose body is lazy has
\* the file behind it fetched, to be added before the next name is visited
scanUndefinedName(t, Name) ==
  IF ~isLazy(find(t, Name))
  THEN logFlag(t, logCall(t, t, "scanUndefinedFlags", Name))
  ELSE logFlag(t, fetched(t, fetch(t, find(t, Name)),
                          mkC("scanUndefinedFlags", Name, STB_GLOBAL, 0, STT_NOTYPE,
                              0, 0, 0, Null, Null)))

\* the loop of scanUndefinedFlags over the names still to visit
RECURSIVE scanUndefinedFrom(_, _)
scanUndefinedFrom(t, Names) ==
  IF Names = << >> THEN t
  ELSE scanUndefinedFrom(parse(scanUndefinedName(t, Head(Names)), << >>), Tail(Names))

\* SymbolTable::scanUndefinedFlags: the -u flags load lazy symbols
scanUndefinedFlags(t) == scanUndefinedFrom(t, Config.Undefined)

(* ------------------------------ LTO bridge ---------------------------- *)
\* BitcodeCompiler::add: the symbols the bitcode file F defines are made
\* undefined, for the compiled object to define them
RECURSIVE undefine(_, _, _)
undefine(t, F, syms) ==
  IF syms = << >> THEN t
  ELSE Let(preSym(t, Head(syms).Name), LAMBDA S :
         IF hasSlot(t, Head(syms).Name) /\ S.Body.Kind = "DefinedRegular" /\ S.Body.File = F
         THEN undefine(replaceBody(t, t.Symtab[Head(syms).Name].Idx,
                                   Undefined(Head(syms).Name, STV_DEFAULT, S.Body.Type, Null)),
                       F, Tail(syms))
         ELSE undefine(t, F, Tail(syms)))

\* for (BitcodeFile *F : BitcodeFiles) LTO->add(*F)
RECURSIVE addAll(_, _)
addAll(t, Files) ==
  IF Files = << >> THEN t
  ELSE addAll(undefine(t, Head(Files), FileSyms(Head(Files))), Tail(Files))

\* BitcodeCompiler::compile: one run of the backend, giving one native object
compile(t) == [t |-> logCall(t, t, "compile", ""), Files |-> <<LTOObject>>]

\* the loop over the compiled objects: parse, then ObjectFiles.push_back
RECURSIVE addCompiled(_, _)
addCompiled(t, Files) ==
  IF Files = << >> THEN t
  ELSE addCompiled([parse(t, FileSyms(Head(Files))) EXCEPT
                      !.ObjectFiles = Append(@, Head(Files))],
                   Tail(Files))

\* addCombinedLTOObject running the backend whatever was collected
addCombinedLTOObjectAlways(t) ==
  Let(compile(addAll(t, t.BitcodeFiles)), LAMBDA r : addCompiled(r.t, r.Files))

\* SymbolTable::addCombinedLTOObject
addCombinedLTOObject(t) ==
  IF t.BitcodeFiles = << >> THEN t
  ELSE Let(compile(addAll(t, t.BitcodeFiles)), LAMBDA r : addCompiled(r.t, r.Files))

(* ------------------------------- --wrap ------------------------------- *)
\* the two memcpy of wrap in the other order
wrapBodiesSwapped(t, Sym, Real, Wrap) ==
  Let(replaceBody(t, Sym, SymAt(t, Wrap).Body), LAMBDA t3 :
    replaceBody(t3, Real, SymAt(t3, Sym).Body))

\* the two memcpy of wrap: Real takes Sym's body, Sym takes Wrap's
wrapBodies(t, Sym, Real, Wrap) ==
  Let(replaceBody(t, Real, SymAt(t, Sym).Body), LAMBDA t3 :
    replaceBody(t3, Sym, SymAt(t3, Wrap).Body))

\* SymbolTable::wrap: rename SYM as __wrap_SYM, keep the original as __real_SYM;
\* the event keeps SYM's Symbol at the call (pre) and at the memcpy (mid)
wrap(t, Name) ==
  IF ~hasSlot(t, Name) THEN t
  ELSE Let(parse(addUndefinedName(t, "__real_" \o Name), << >>), LAMBDA t1 :
       Let(parse(addUndefinedName(t1, "__wrap_" \o Name), << >>), LAMBDA t2 :
       Let(logEv(t, wrapBodies(t2, t2.Symtab[Name].Idx, t2.Symtab["__real_" \o Name].Idx,
                               t2.Symtab["__wrap_" \o Name].Idx),
                 mkC("wrap", Name, STB_GLOBAL, 0, STT_NOTYPE, 0, 0, 0, Null, Null),
                 FALSE, Null), LAMBDA t3 :
         [t3 EXCEPT !.log[Len(t3.log)].mid = SlotOf(t2, Name)])))

(* --------------------------- version scripts -------------------------- *)
\* the characters of the symbol names and patterns of version scripts
Chars(Name) ==
  CASE Name = "foo_bar" -> <<"f", "o", "o", "_", "b", "a", "r">>
    [] Name = "foo_baz" -> <<"f", "o", "o", "_", "b", "a", "z">>
    [] Name = "_Z3quxv" -> <<"_", "Z", "3", "q", "u", "x", "v">>
    [] Name = "qux()" -> <<"q", "u", "x", "(", ")">>
    [] Name = "foo_*" -> <<"f", "o", "o", "_", "*">>
    [] Name = "*_bar" -> <<"*", "_", "b", "a", "r">>
    [] Name = "foo" -> <<"f", "o", "o">>
    [] Name = "bar" -> <<"b", "a", "r">>
    [] Name = "__wrap_foo" -> <<"_", "_", "w", "r", "a", "p", "_", "f", "o", "o">>
    [] Name = "__real_foo" -> <<"_", "_", "r", "e", "a", "l", "_", "f", "o", "o">>

\* StringMatcher::match: glob matching with * and ?
RECURSIVE globMatch(_, _)
globMatch(p, str) ==
  IF p = << >> THEN str = << >>
  ELSE IF Head(p) = "*"
  THEN globMatch(Tail(p), str) \/ (str # << >> /\ globMatch(p, Tail(str)))
  ELSE /\ str # << >>
       /\ Head(p) = "?" \/ Head(p) = Head(str)
       /\ globMatch(Tail(p), Tail(str))

match(Pattern, Name) == globMatch(Chars(Pattern), Chars(Name))

\* hasWildcard: the pattern holds a glob meta-character
hasWildcard(Name) == \E i \in 1..Len(Chars(Name)) : Chars(Name)[i] \in {"*", "?", "["}

\* demangle: the demangled name of an Itanium-mangled name, Null for others
demangle(Name) == IF Name = "_Z3quxv" THEN "qux()" ELSE Null

SymbolVersion(Name, IsExternCpp) ==
  [Name |-> Name, IsExternCpp |-> IsExternCpp, HasWildcard |-> hasWildcard(Name)]

VersionDefinition(Name, Id, Globals) == [Name |-> Name, Id |-> Id, Globals |-> Globals]

NoDemangledSyms == [set |-> FALSE, map |-> << >>]

\* the name getDemangledSyms() files the body under
demangledKey(B) == IF demangle(B.Name) # Null THEN demangle(B.Name) ELSE B.Name

\* the indices (0-based) of the Symbols of t whose body satisfies P, in order
symsWhere(t, P(_)) ==
  LET idx == [i \in 1..Len(t.SymVector) |-> i - 1]
  IN SelectSeq(idx, LAMBDA i : P(SymAt(t, i).Body))

\* getDemangledSyms building the map at every call
getDemangledSymsRebuilds(t) ==
  Let(symsWhere(t, LAMBDA B : ~isUndefined(B)), LAMBDA defined :
    [t EXCEPT !.DemangledSyms =
       [set |-> TRUE,
        map |-> [k \in {demangledKey(SymAt(t, defined[i]).Body) :
                          i \in 1..Len(defined)} |->
                   SelectSeq(defined,
                             LAMBDA i : demangledKey(SymAt(t, i).Body) = k)]]])

\* SymbolTable::getDemangledSyms: the map is built at the first call
getDemangledSyms(t) ==
  IF t.DemangledSyms.set THEN t
  ELSE Let(symsWhere(t, LAMBDA B : ~isUndefined(B)), LAMBDA defined :
         [t EXCEPT !.DemangledSyms =
            [set |-> TRUE,
             map |-> [k \in {demangledKey(SymAt(t, defined[i]).Body) :
                               i \in 1..Len(defined)} |->
                        SelectSeq(defined,
                                  LAMBDA i : demangledKey(SymAt(t, i).Body) = k)]]])

\* SymbolTable::findByVersion: the table (its map may have been built) and
\* the Symbols found
findByVersion(t, Ver) ==
  IF Ver.IsExternCpp
  THEN Let(getDemangledSyms(t), LAMBDA t1 :
         [t |-> t1,
          Syms |-> IF Ver.Name \in DOMAIN t1.DemangledSyms.map
                   THEN t1.DemangledSyms.map[Ver.Name] ELSE << >>])
  ELSE IF hasSlot(t, Ver.Name) /\ ~isUndefined(find(t, Ver.Name))
  THEN [t |-> t, Syms |-> <<t.Symtab[Ver.Name].Idx>>]
  ELSE [t |-> t, Syms |-> << >>]

\* the Symbols filed under the keys of the map that the pattern matches (the
\* map is walked in hash order; the Symbols come here by index)
matchDemangled(t, Pattern) ==
  LET map == t.DemangledSyms.map
      keys == {k \in DOMAIN map : match(Pattern, k)}
      idx == [i \in 1..Len(t.SymVector) |-> i - 1]
  IN SelectSeq(idx, LAMBDA i : \E k \in keys : \E j \in 1..Len(map[k]) : map[k][j] = i)

\* SymbolTable::findAllByVersion
findAllByVersion(t, Ver) ==
  IF Ver.IsExternCpp
  THEN Let(getDemangledSyms(t), LAMBDA t1 :
         [t |-> t1, Syms |-> matchDemangled(t1, Ver.Name)])
  ELSE [t |-> t,
        Syms |-> symsWhere(t, LAMBDA B : ~isUndefined(B) /\ match(Ver.Name, B.Name))]

\* one version assignment to the Symbol at Idx: Value is the version id,
\* Section the pattern
mkV(op, t, Idx, VersionId, Ver) ==
  mkC(op, SymAt(t, Idx).key, STB_GLOBAL, 0, STT_NOTYPE, VersionId, 0, 0, Ver.Name, Null)

\* the loop of assignExactVersion over the Symbols found
RECURSIVE stampExact(_, _, _, _)
stampExact(t, Syms, Ver, VersionId) ==
  IF Syms = << >> THEN t
  ELSE Let(IF SymAt(t, Head(Syms)).InVersionScript
           THEN warn(t, "duplicate symbol in version script") ELSE t, LAMBDA t1 :
         stampExact(logEv(t, [t1 EXCEPT !.SymVector[Head(Syms) + 1].VersionId = VersionId,
                                        !.SymVector[Head(Syms) + 1].InVersionScript = TRUE],
                          mkV("assignExactVersion", t, Head(Syms), VersionId, Ver),
                          FALSE, Null),
                    Tail(Syms), Ver, VersionId))

\* the event of an exact assignment that found no Symbol to stamp
logNotDefined(t0, t, Ver, VersionId) ==
  [withSame(t0, logEv(t0, t, mkC("assignExactVersion: not defined", Ver.Name, STB_GLOBAL,
                                 0, STT_NOTYPE, VersionId, 0, 0, Ver.Name, Null),
                      FALSE, Null))
     EXCEPT !.log[Len(t.log) + 1].ret = Ver]

\* assignExactVersion taking every link for a strict one
assignExactVersionStrict(t, Ver, VersionId, VersionName) ==
  IF Ver.HasWildcard THEN t
  ELSE Let(findByVersion(t, Ver), LAMBDA r :
         IF r.Syms = << >>
         THEN logNotDefined(t, error(r.t, "version script assignment failed: symbol not defined"),
                            Ver, VersionId)
         ELSE stampExact(r.t, r.Syms, Ver, VersionId))

\* SymbolTable::assignExactVersion: patterns containing no wildcard characters
assignExactVersion(t, Ver, VersionId, VersionName) ==
  IF Ver.HasWildcard THEN t
  ELSE Let(findByVersion(t, Ver), LAMBDA r :
         IF r.Syms = << >>
         THEN logNotDefined(t, IF Config.NoUndefinedVersion
                               THEN error(r.t, "version script assignment failed: symbol not defined")
                               ELSE r.t,
                            Ver, VersionId)
         ELSE stampExact(r.t, r.Syms, Ver, VersionId))

\* the loop of assignWildcardVersion over the Symbols found
RECURSIVE stampWildcard(_, _, _, _)
stampWildcard(t, Syms, Ver, VersionId) ==
  IF Syms = << >> THEN t
  ELSE stampWildcard(
         logEv(t, IF SymAt(t, Head(Syms)).VersionId = Config.DefaultSymbolVersion
                  THEN [t EXCEPT !.SymVector[Head(Syms) + 1].VersionId = VersionId]
                  ELSE t,
               mkV("assignWildcardVersion", t, Head(Syms), VersionId, Ver), FALSE, Null),
         Tail(Syms), Ver, VersionId)

\* SymbolTable::assignWildcardVersion
assignWildcardVersion(t, Ver, VersionId) ==
  IF ~Ver.HasWildcard THEN t
  ELSE Let(findAllByVersion(t, Ver), LAMBDA r : stampWildcard(r.t, r.Syms, Ver, VersionId))

\* for (Ver : Vers) assignExactVersion(Ver, VersionId, VersionName)
RECURSIVE assignExactAll(_, _, _, _)
assignExactAll(t, Vers, VersionId, VersionName) ==
  IF Vers = << >> THEN t
  ELSE assignExactAll(assignExactVersion(t, Head(Vers), VersionId, VersionName),
                      Tail(Vers), VersionId, VersionName)

\* for (Ver : Vers) assignWildcardVersion(Ver, VersionId)
RECURSIVE assignWildcardAll(_, _, _)
assignWildcardAll(t, Vers, VersionId) ==
  IF Vers = << >> THEN t
  ELSE assignWildcardAll(assignWildcardVersion(t, Head(Vers), VersionId),
                         Tail(Vers), VersionId)

\* SymbolTable::handleAnonymousVersion
handleAnonymousVersion(t) ==
  Let(assignExactAll(t, Config.VersionScriptGlobals, VER_NDX_GLOBAL, "global"), LAMBDA t1 :
  Let(assignWildcardAll(t1, Config.VersionScriptGlobals, VER_NDX_GLOBAL), LAMBDA t2 :
  Let(assignExactAll(t2, Config.VersionScriptLocals, VER_NDX_LOCAL, "local"), LAMBDA t3 :
    assignWildcardAll(t3, Config.VersionScriptLocals, VER_NDX_LOCAL))))

\* for (V : VersionDefinitions) for (Ver : V.Globals) assignExactVersion(...)
RECURSIVE exactPhase(_, _)
exactPhase(t, Defs) ==
  IF Defs = << >> THEN t
  ELSE exactPhase(assignExactAll(t, Head(Defs).Globals, Head(Defs).Id, Head(Defs).Name),
                  Tail(Defs))

\* the wildcard patterns taken in the order of declaration
RECURSIVE wildcardPhaseForward(_, _)
wildcardPhaseForward(t, Defs) ==
  IF Defs = << >> THEN t
  ELSE wildcardPhaseForward(assignWildcardAll(t, Head(Defs).Globals, Head(Defs).Id),
                            Tail(Defs))

\* for (V : reverse(VersionDefinitions)) for (Ver : V.Globals)
\*   assignWildcardVersion(...)
RECURSIVE wildcardPhase(_, _)
wildcardPhase(t, Defs) ==
  IF Defs = << >> THEN t
  ELSE wildcardPhase(assignWildcardAll(t, Defs[Len(Defs)].Globals, Defs[Len(Defs)].Id),
                     SubSeq(Defs, 1, Len(Defs) - 1))

\* SymbolTable::scanVersionScript; no name of the inputs has the form
\* <name>@<version>, so parseSymbolVersion changes nothing.  The event
\* "scanVersionScript" marks the start of the pass.
scanVersionScript(t) ==
  Let(logEv(t, t, mkC("scanVersionScript", "", STB_GLOBAL, 0, STT_NOTYPE, 0, 0, 0,
                      Null, Null), FALSE, Null), LAMBDA t0 :
  Let(handleAnonymousVersion(t0), LAMBDA t1 :
    IF Config.VersionDefinitions = << >> THEN t1
    ELSE wildcardPhase(exactPhase(t1, Config.VersionDefinitions),
                       Config.VersionDefinitions)))

(* --------------------------- the state machine ------------------------ *)
\* the table as the operators above take it; out and log start empty for
\* every operation
Cur ==
  [Symtab |-> Symtab, SymVector |-> SymVector, ErrorCount |-> ErrorCount,
   Seen |-> Seen, ObjectFiles |-> ObjectFiles, SharedFiles |-> SharedFiles,
   BitcodeFiles |-> BitcodeFiles, BinaryFiles |-> BinaryFiles,
   SoNames |-> SoNames, IsUsed |-> IsUsed, DemangledSyms |-> DemangledSyms,
   pending |-> Null,
   out |-> << >>, log |-> << >>]

evNames(lg, P(_)) == {lg[i].c.Name : i \in {j \in 1..Len(lg) : P(lg[j])}}

isStrongRef(e) == e.c.op = "addUndefined" /\ e.c.Binding # STB_WEAK
isWeakRef(e) == e.c.op = "addUndefined" /\ e.c.Binding = STB_WEAK
isOffer(e) == e.c.op \in {"addLazyArchive", "addLazyObject"}
isDefinition(e) ==
  e.c.op \in {"addRegular", "addSynthetic", "addShared", "addBitcode"}
isWrap(e) == e.c.op = "wrap"

isCommonEv(e) == e.c.op = "addCommon"

isScan(e) == e.c.op = "scanVersionScript"

isBridge(e) == e.c.op = "addCombinedLTOObject"

isCompile(e) == e.c.op = "compile"

\* the calls that go through insert(Name, Type, Visibility, ...)
isAttrEv(e) ==
  e.c.op \in {"addUndefined", "addCommon", "addRegular", "addSynthetic", "addShared",
              "addBitcode"}

\* <<name, from a DSO, visibility>> of the attribute-carrying contributions
\* of lg
evVis(lg) ==
  {<<lg[i].c.Name, lg[i].c.op = "addShared", getVisibility(lg[i].c.StOther)>> :
     i \in {j \in 1..Len(lg) : isAttrEv(lg[j])}}

\* the diagnostics the link goes on after
Recoverable == {"duplicate symbol", "previous definition was here",
                "common is overridden", "multiple common"}

evDiags(lg) ==
  {d \in UNION {{lg[i].diags[k].msg : k \in 1..Len(lg[i].diags)} : i \in 1..Len(lg)} :
     d \in Recoverable}

\* the common symbols contributed by the events of lg
evCommons(lg) ==
  {[Name |-> lg[i].c.Name, Size |-> lg[i].c.Size, Alignment |-> lg[i].c.Alignment,
    Binding |-> lg[i].c.Binding] : i \in {j \in 1..Len(lg) : isCommonEv(lg[j])}}

NoHist ==
  [strongRef |-> {}, weakRef |-> {}, offered |-> {}, defd |-> {}, wrapped |-> {},
   commons |-> {}, scanned |-> FALSE, bridge |-> FALSE, compiles |-> 0, vis |-> {},
   diags |-> {}, diags0 |-> {}]

updHist(h, lg) ==
  [strongRef |-> h.strongRef \cup evNames(lg, isStrongRef),
   weakRef |-> h.weakRef \cup evNames(lg, isWeakRef),
   offered |-> h.offered \cup evNames(lg, isOffer),
   defd |-> h.defd \cup evNames(lg, isDefinition),
   wrapped |-> h.wrapped \cup evNames(lg, isWrap)
                 \cup {"__real_" \o n : n \in evNames(lg, isWrap)},
   commons |-> h.commons \cup evCommons(lg),
   scanned |-> h.scanned \/ evNames(lg, isScan) # {},
   bridge |-> h.bridge \/ evNames(lg, isBridge) # {},
   compiles |-> h.compiles + Cardinality({i \in 1..Len(lg) : isCompile(lg[i])}),
   vis |-> h.vis \cup evVis(lg),
   diags |-> h.diags \cup evDiags(lg),
   diags0 |-> h.diags]

\* the operation whose result is table t has been performed
StepTo(bound, t) ==
  /\ nops < bound
  /\ Symtab' = t.Symtab
  /\ SymVector' = t.SymVector
  /\ ErrorCount' = t.ErrorCount
  /\ Seen' = t.Seen
  /\ ObjectFiles' = t.ObjectFiles
  /\ SharedFiles' = t.SharedFiles
  /\ BitcodeFiles' = t.BitcodeFiles
  /\ BinaryFiles' = t.BinaryFiles
  /\ SoNames' = t.SoNames
  /\ IsUsed' = t.IsUsed
  /\ DemangledSyms' = t.DemangledSyms
  /\ log' = t.log
  /\ hist' = updHist(hist, t.log)
  /\ nops' = nops + 1
  /\ UNCHANGED <<Config, xray>>

Step(t) == StepTo(MaxOps, t)

mkConfig(AllowMultipleDefinition, WarnCommon, ExportDynamic, DefaultSymbolVersion) ==
  [AllowMultipleDefinition |-> AllowMultipleDefinition, WarnCommon |-> WarnCommon,
   Shared |-> FALSE, ExportDynamic |-> ExportDynamic,
   DefaultSymbolVersion |-> DefaultSymbolVersion,
   EKind |-> "ELF64LEKind", EMachine |-> "EM_X86_64", MipsN32Abi |-> FALSE,
   VersionDefinitions |-> << >>, VersionScriptGlobals |-> << >>,
   VersionScriptLocals |-> << >>, NoUndefinedVersion |-> FALSE,
   Undefined |-> << >>]

\* the threads that log
Threads == {1, 2}

\* the XRay log before any thread logged: static Fd is not initialized, the
\* thread-local buffers are zeroed, no Flusher is constructed, no thread
\* holds LogMutex (0); records are <<thread, number>>, the null pointer is 0
XRayStart ==
  [pc |-> [t \in Threads |-> "idle"],
   Offset |-> [t \in Threads |-> 0],
   InMemoryBuffer |-> [t \in Threads |-> [i \in 0..(BuffLen - 1) |-> <<0, 0>>]],
   Flusher |-> [t \in Threads |-> [made |-> FALSE, Fd |-> -1, Start |-> 0]],
   w |-> [t \in Threads |-> 0],
   Guard |-> "uninit", F |-> -1, Fd |-> -1,
   LogMutex |-> 0,
   File |-> << >>,
   logged |-> [t \in Threads |-> 0],
   outside |-> FALSE]

InitTable ==
  /\ xray = XRayStart
  /\ Symtab = << >>
  /\ SymVector = << >>
  /\ ErrorCount = 0
  /\ Seen = {}
  /\ ObjectFiles = << >>
  /\ SharedFiles = << >>
  /\ BitcodeFiles = << >>
  /\ BinaryFiles = << >>
  /\ SoNames = {}
  /\ IsUsed = {}
  /\ DemangledSyms = NoDemangledSyms
  /\ log = << >>
  /\ hist = NoHist
  /\ nops = 0

(* the calls the driver and the file parsers make, with their arguments *)
Trace(Name) == Step(trace(Cur, Name))

AddUndefined(Name, Binding, StOther, Type, File) ==
  Step(parse(addUndefined(Cur, Name, FALSE, Binding, StOther, Type, FALSE, File), << >>))

AddCommon(N, Size, Alignment, Binding, StOther, Type, File) ==
  Step(addCommon(Cur, N, Size, Alignment, Binding, StOther, Type, File))

AddRegular(Name, StOther, Type, Value, Size, Binding, Section, File) ==
  Step(addRegular(Cur, Name, StOther, Type, Value, Size, Binding, Section, File))

AddSynthetic(N, Section, Value, StOther) ==
  Step(addSynthetic(Cur, N, Section, Value, StOther))

AddShared(File, Name, StOther, Type) == Step(addShared(Cur, File, Name, StOther, Type))

AddBitcode(Name, Binding, StOther, Type, F) ==
  Step(addBitcode(Cur, Name, Binding, StOther, Type, FALSE, F))

AddLazyArchive(F, Sym) == Step(parse(addLazyArchive(Cur, F, Sym), << >>))

AddLazyObject(Name, Obj) == Step(parse(addLazyObject(Cur, Name, Obj), << >>))

AddFile(File) == Step(addFile(Cur, File))

Wrap(Name) == Step(wrap(Cur, Name))

\* find(Name): the event keeps what the call returned
Find(Name) ==
  Step([logCall(Cur, Cur, "find", Name) EXCEPT !.log[1].ret = find(Cur, Name)])

\* the driver calls addCombinedLTOObject once, the event is the whole call
AddCombinedLTOObject ==
  /\ ~hist.bridge
  /\ Step(Let(addCombinedLTOObject(Cur), LAMBDA t :
            logCall(Cur, t, "addCombinedLTOObject", "")))

\* scanUndefinedFlags(): the events are those of the names of the list
ScanUndefinedFlags == Step(scanUndefinedFlags(Cur))

\* getDemangledSyms(): the event keeps whether this call built the map, and
\* the map the call returned
GetDemangledSyms ==
  Step(Let(getDemangledSyms(Cur), LAMBDA t :
         [logCall(Cur, t, "getDemangledSyms", "") EXCEPT
            !.log[1].ret = [built |-> ~Cur.DemangledSyms.set,
                            map |-> t.DemangledSyms.map]]))

Bindings == {STB_GLOBAL, STB_WEAK}

\* absolute or section-backed, with the value
Places == { <<Null, 0>>, <<Null, 1>>, <<".text", 0>> }

\* size and alignment of a common symbol
Commons == { <<8, 4>> }

Init ==
  /\ InitTable
  /\ Config \in {mkConfig(a, FALSE, FALSE, VER_NDX_GLOBAL) : a \in BOOLEAN}

Next ==
  \/ Trace("foo")
  \/ \E n \in {"foo", "bar"}, b \in Bindings :
        AddUndefined(n, b, STV_DEFAULT, STT_NOTYPE, "x.o")
  \/ \E c \in Commons, b \in Bindings :
        AddCommon("foo", c[1], c[2], b, STV_DEFAULT, STT_OBJECT, "x.o")
  \/ \E b \in Bindings, p \in Places :
        AddRegular("foo", STV_DEFAULT, STT_OBJECT, p[2], 0, b, p[1], "x.o")
  \/ \E n \in {"bar", "__wrap_foo"} :
        AddRegular(n, STV_HIDDEN, STT_OBJECT, 0, 0, STB_GLOBAL, ".text", "x.o")
  \/ AddSynthetic("foo", ".text", 0, STV_HIDDEN)
  \/ AddShared("libc.so", "foo", STV_DEFAULT, STT_OBJECT)
  \/ \E b \in Bindings : AddBitcode("foo", b, STV_DEFAULT, STT_OBJECT, "lto.bc")
  \/ AddLazyArchive("lib.a", ArchiveSyms[1])
  \/ \E i \in 1..Len(LazyObjectSyms) : AddLazyObject(LazyObjectSyms[i], "lazy.o")
  \/ \E f \in TopFiles \ {"blob.bin", "alien.o"} : AddFile(f)
  \/ Wrap("foo")

Spec == Init /\ [][Next]_vars

(* ------------------ common symbols of one name only ------------------- *)
MaxCommons == 4

CommonSizes == {8, 16}

CommonAligns == {4, 8}

MergeCommon(N, Size, Alignment, Binding) ==
  StepTo(MaxCommons, addCommon(Cur, N, Size, Alignment, Binding, STV_DEFAULT, STT_OBJECT,
                               "x.o"))

InitCommon ==
  /\ InitTable
  /\ Config \in {mkConfig(FALSE, w, FALSE, VER_NDX_GLOBAL) : w \in BOOLEAN}

NextCommon ==
  \E Size \in CommonSizes, Alignment \in CommonAligns, b \in Bindings :
    MergeCommon("foo", Size, Alignment, b)

SpecCommon == InitCommon /\ [][NextCommon]_vars

(* --------------- contributions to one name, by attributes ------------- *)
\* visibility and type of a contribution
Attrs ==
  { <<STV_DEFAULT, STT_OBJECT>>, <<STV_HIDDEN, STT_TLS>>, <<STV_PROTECTED, STT_OBJECT>>,
    <<STV_INTERNAL, STT_TLS>> }

InitAttrs ==
  /\ InitTable
  /\ Config \in {mkConfig(a, FALSE, FALSE, VER_NDX_GLOBAL) : a \in BOOLEAN}

NextAttrs ==
  \/ \E a \in Attrs : AddUndefined("foo", STB_GLOBAL, a[1], a[2], "x.o")
  \/ \E a \in Attrs, b \in Bindings :
        AddRegular("foo", a[1], a[2], 0, 0, b, ".text", "x.o")
  \/ \E a \in {x \in Attrs : x[1] \in {STV_HIDDEN, STV_PROTECTED}} :
        AddCommon("foo", 8, 4, STB_GLOBAL, a[1], a[2], "x.o")
  \/ \E a \in {x \in Attrs : x[1] \in {STV_DEFAULT, STV_PROTECTED}} :
        AddShared("libc.so", "foo", a[1], a[2])
  \/ \E a \in {x \in Attrs : x[1] \in {STV_DEFAULT, STV_INTERNAL}} :
        AddBitcode("foo", STB_GLOBAL, a[1], a[2], "lto.bc")
  \/ \E vis \in {STV_DEFAULT, STV_HIDDEN} : AddSynthetic("foo", ".text", 0, vis)
  \/ AddLazyArchive("lib.a", "foo")

SpecAttrs == InitAttrs /\ [][NextAttrs]_vars

(* ------------- the driver's calls: files, lookups, LTO bridge --------- *)
DriverFiles == TopFiles \cup AlienFiles

\* the link's target: x86-64, MIPS o32 or MIPS n32
Targets ==
  {[EKind |-> "ELF64LEKind", EMachine |-> "EM_X86_64", MipsN32Abi |-> FALSE],
   [EKind |-> "ELF64LEKind", EMachine |-> "EM_MIPS", MipsN32Abi |-> FALSE],
   [EKind |-> "ELF64LEKind", EMachine |-> "EM_MIPS", MipsN32Abi |-> TRUE]}

DriverConfigs ==
  {[mkConfig(a, FALSE, FALSE, VER_NDX_GLOBAL) EXCEPT
      !.EKind = g.EKind, !.EMachine = g.EMachine, !.MipsN32Abi = g.MipsN32Abi] :
     a \in BOOLEAN, g \in Targets}

InitDriver ==
  /\ InitTable
  /\ Config \in {c \in DriverConfigs :
                   c.AllowMultipleDefinition => c.EMachine = "EM_X86_64"}

NextDriver ==
  \/ \E f \in DriverFiles : AddFile(f)
  \/ AddRegular("foo", STV_DEFAULT, STT_OBJECT, 0, 0, STB_GLOBAL, ".text", "x.o")
  \/ Trace("bar")
  \/ \E n \in {"foo", "bar"} : Find(n)
  \/ AddCombinedLTOObject

SpecDriver == InitDriver /\ [][NextDriver]_vars

(* ----------- definitions, references and offers of one name ---------- *)
InitDefs ==
  /\ InitTable
  /\ Config \in {mkConfig(a, FALSE, FALSE, VER_NDX_GLOBAL) : a \in BOOLEAN}

NextDefs ==
  \/ \E b \in Bindings : AddUndefined("foo", b, STV_DEFAULT, STT_NOTYPE, "x.o")
  \/ \E b \in Bindings, p \in Places :
        AddRegular("foo", STV_DEFAULT, STT_OBJECT, p[2], 0, b, p[1], "x.o")
  \/ \E b \in Bindings : AddCommon("foo", 8, 4, b, STV_DEFAULT, STT_OBJECT, "x.o")
  \/ AddSynthetic("foo", ".text", 0, STV_HIDDEN)
  \/ AddShared("libc.so", "foo", STV_DEFAULT, STT_OBJECT)
  \/ \E b \in Bindings : AddBitcode("foo", b, STV_DEFAULT, STT_OBJECT, "lto.bc")
  \/ AddLazyArchive("lib.a", "foo")
  \/ AddLazyObject("foo", "lazy.o")

SpecDefs == InitDefs /\ [][NextDefs]_vars

(* ------------- lazy symbols, references and the -u flags -------------- *)
\* the lists --undefined may give: names the archive offers, a name of no
\* input, the name wrap gives the original symbol
UndefinedFlags == { <<"foo">>, <<"baz", "bar">>, <<"__real_foo", "foo">> }

InitLazy ==
  /\ InitTable
  /\ Config \in {[mkConfig(FALSE, FALSE, FALSE, VER_NDX_GLOBAL) EXCEPT !.Undefined = u] :
                   u \in UndefinedFlags}

NextLazy ==
  \/ \E f \in {"main.o", "lib.a", "lazy.o"} : AddFile(f)
  \/ \E n \in {"foo", "__real_foo"}, b \in Bindings, ty \in {STT_NOTYPE, STT_OBJECT} :
        AddUndefined(n, b, STV_DEFAULT, ty, "x.o")
  \/ AddLazyArchive("lib.a", "foo")
  \/ Wrap("foo")
  \/ ScanUndefinedFlags

SpecLazy == InitLazy /\ [][NextLazy]_vars

(* ------------- shared libraries and the references to them ----------- *)
InitShared ==
  /\ InitTable
  /\ Config \in {mkConfig(FALSE, FALSE, x, VER_NDX_GLOBAL) : x \in BOOLEAN}

NextShared ==
  \/ \E b \in Bindings, v \in {STV_DEFAULT, STV_HIDDEN} :
        AddUndefined("foo", b, v, STT_NOTYPE, "x.o")
  \/ \E L \in {"libc.so", OtherDSO}, v \in {STV_DEFAULT, STV_PROTECTED} :
        AddShared(L, "foo", v, STT_OBJECT)
  \/ AddRegular("foo", STV_DEFAULT, STT_OBJECT, 0, 0, STB_GLOBAL, ".text", "x.o")
  \/ AddFile("libc.so")
  \/ Wrap("foo")

SpecShared == InitShared /\ [][NextShared]_vars

(* ------------------- the index of demangled names -------------------- *)
\* a C name, a mangled C++ name and a name that reads as its demangled form
DNames == {"foo_bar", "_Z3quxv", "qux()"}

InitDemangle ==
  /\ InitTable
  /\ Config = mkConfig(FALSE, FALSE, FALSE, VER_NDX_GLOBAL)

NextDemangle ==
  \/ \E n \in DNames :
        AddRegular(n, STV_DEFAULT, STT_OBJECT, 0, 0, STB_GLOBAL, ".text", "x.o")
  \/ \E n \in DNames : AddUndefined(n, STB_GLOBAL, STV_DEFAULT, STT_NOTYPE, "x.o")
  \/ GetDemangledSyms

SpecDemangle == InitDemangle /\ [][NextDemangle]_vars

(* ------------------- --trace-symbol before the inputs ---------------- *)
TraceNames == {"foo", "bar"}

InitTrace ==
  /\ InitTable
  /\ Config \in {mkConfig(FALSE, FALSE, FALSE, v) : v \in {VER_NDX_GLOBAL, VER_NDX_LOCAL}}

NextTrace ==
  \/ \E n \in TraceNames : Trace(n)
  \/ \E n \in TraceNames : Find(n)
  \/ \E n \in TraceNames, b \in Bindings :
        AddUndefined(n, b, STV_HIDDEN, STT_NOTYPE, "x.o")
  \/ \E n \in TraceNames :
        AddRegular(n, STV_DEFAULT, STT_OBJECT, 0, 0, STB_GLOBAL, ".text", "x.o")
  \/ AddShared("libc.so", "foo", STV_DEFAULT, STT_OBJECT)
  \/ AddLazyArchive("lib.a", "foo")

SpecTrace == InitTrace /\ [][NextTrace]_vars

(* ------------------------ the XRay in-memory log ---------------------- *)
\* what getLogFD() may return: no file, descriptor 0, another descriptor
LogFDs == {-1, 0, 3}

\* the XRayFileHeader in the file
Header == <<-1, 0>>

\* a step of the log leaves the symbol table alone
XRayStep(x) ==
  /\ xray' = x
  /\ UNCHANGED <<Symtab, SymVector, ErrorCount, Seen, ObjectFiles, SharedFiles,
                 BitcodeFiles, BinaryFiles, SoNames, IsUsed, DemangledSyms, Config,
                 log, hist, nops>>

\* thread t calls __xray_InMemoryRawLog and reaches static int Fd: the first
\* thread to come runs __xray_OpenLogFile up to getLogFD(), a thread that
\* comes while it runs waits, a later thread passes
EnterLog(t) ==
  /\ xray.pc[t] = "idle" /\ xray.logged[t] < MaxRecords
  /\ xray.Guard # "running"
  /\ IF xray.Guard = "done" THEN XRayStep([xray EXCEPT !.pc[t] = "body"])
     ELSE \E F \in LogFDs :
            XRayStep(IF F = -1
                     THEN [xray EXCEPT !.Guard = "done", !.Fd = -1, !.pc[t] = "body"]
                     ELSE [xray EXCEPT !.Guard = "running", !.F = F, !.pc[t] = "header"])

\* __xray_OpenLogFile writes the header and returns F; Fd is initialized
WriteHeader(t) ==
  /\ xray.pc[t] = "header"
  /\ XRayStep([xray EXCEPT !.File = Append(@, Header), !.Fd = xray.F,
                            !.Guard = "done", !.pc[t] = "body"])

\* the body of __xray_InMemoryRawLog up to the test of Offset: return when
\* there is no file; construct the thread's Flusher at the first call; store
\* the record at Offset (a store past the buffer is recorded) and count it
StoreRecord(t) ==
  /\ xray.pc[t] = "body"
  /\ IF xray.Fd = -1 THEN XRayStep([xray EXCEPT !.pc[t] = "idle"])
     ELSE XRayStep(
            [xray EXCEPT
               !.Flusher[t] = IF @.made THEN @
                              ELSE [made |-> TRUE, Fd |-> xray.Fd, Start |-> t],
               !.InMemoryBuffer[t] =
                  IF xray.Offset[t] < BuffLen
                  THEN [@ EXCEPT ![xray.Offset[t]] = <<t, xray.logged[t] + 1>>] ELSE @,
               !.outside = @ \/ xray.Offset[t] >= BuffLen,
               !.logged[t] = @ + 1,
               !.Offset[t] = @ + 1,
               !.pc[t] = IF xray.Offset[t] + 1 = BuffLen THEN "lock" ELSE "idle"])

\* the full buffer is written without taking LogMutex
LockFlushNoMutex(t) ==
  /\ xray.pc[t] = "lock"
  /\ XRayStep([xray EXCEPT !.w[t] = 0, !.pc[t] = "write"])

\* std::lock_guard<std::mutex> L(LogMutex) of the full buffer
LockFlush(t) ==
  /\ xray.pc[t] = "lock" /\ xray.LogMutex = 0
  /\ XRayStep([xray EXCEPT !.LogMutex = t, !.w[t] = 0, !.pc[t] = "write"])

\* retryingWriteAll, one write() at a time: the next record of the buffer
\* goes to the file (in the full-buffer flush and in the exit flusher)
WriteRecord(t) ==
  /\ xray.pc[t] \in {"write", "exitwrite"} /\ xray.w[t] < xray.Offset[t]
  /\ XRayStep([xray EXCEPT !.File = Append(@, xray.InMemoryBuffer[t][xray.w[t]]),
                            !.w[t] = @ + 1])

\* the full buffer is written: Offset = 0, the lock is released, the call ends
EndFlush(t) ==
  /\ xray.pc[t] = "write" /\ xray.w[t] = xray.Offset[t]
  /\ XRayStep([xray EXCEPT !.Offset[t] = 0, !.pc[t] = "idle",
                            !.LogMutex = IF @ = t THEN 0 ELSE @])

\* thread t ends outside a call: its thread_local Flusher, if it was
\* constructed, is to be destroyed
ThreadExit(t) ==
  /\ xray.pc[t] = "idle"
  /\ XRayStep([xray EXCEPT !.pc[t] = IF xray.Flusher[t].made THEN "exitlock"
                                     ELSE "done"])

\* ~ThreadExitFlusher: the lock, and the test Fd > 0 && Start != nullptr,
\* which decides whether the buffer up to Offset is written
ExitFlusher(t) ==
  /\ xray.pc[t] = "exitlock" /\ xray.LogMutex = 0
  /\ XRayStep([xray EXCEPT
                 !.LogMutex = t, !.pc[t] = "exitwrite",
                 !.w[t] = IF xray.Flusher[t].Fd > 0 /\ xray.Flusher[t].Start # 0
                          THEN 0 ELSE xray.Offset[t]])

\* ~ThreadExitFlusher returns: the lock is released, the thread is gone
EndExitFlusher(t) ==
  /\ xray.pc[t] = "exitwrite" /\ xray.w[t] = xray.Offset[t]
  /\ XRayStep([xray EXCEPT !.LogMutex = 0, !.pc[t] = "done"])

InitXRay ==
  /\ InitTable
  /\ Config = mkConfig(FALSE, FALSE, FALSE, VER_NDX_GLOBAL)

NextXRay ==
  \E t \in Threads :
    \/ EnterLog(t)
    \/ WriteHeader(t)
    \/ StoreRecord(t)
    \/ LockFlush(t)
    \/ WriteRecord(t)
    \/ EndFlush(t)
    \/ ThreadExit(t)
    \/ ExitFlusher(t)
    \/ EndExitFlusher(t)

SpecXRay == InitXRay /\ [][NextXRay]_vars

(* --------------------- inputs, then the version script ---------------- *)
MaxDefs == 2

VNames == {"foo_bar", "foo_baz", "_Z3quxv"}

\* the patterns of the global: lists
Patterns ==
  {SymbolVersion("foo_bar", FALSE), SymbolVersion("foo_*", FALSE),
   SymbolVersion("*_bar", FALSE), SymbolVersion("qux()", TRUE)}

DefNames == <<"v1", "v2", "v3", "v4">>

\* the version definitions a script declares: the ids start at 2, in the
\* order of declaration
DefLists ==
  {[i \in DOMAIN g |-> VersionDefinition(DefNames[i], i + 1, <<g[i]>>)] :
     g \in UNION {[1..n -> Patterns] : n \in 0..MaxDefs}}

\* the local: lists ("*" is not kept in the list: it makes VER_NDX_LOCAL the
\* default version)
LocalLists ==
  {<< >>, <<SymbolVersion("foo_baz", FALSE)>>, <<SymbolVersion("foo_*", FALSE)>>}

\* the global: lists of an anonymous version
GlobalLists ==
  {<< >>, <<SymbolVersion("foo_bar", FALSE)>>, <<SymbolVersion("foo_*", FALSE)>>}

\* a script has its anonymous version alone or named versions
VersionConfigs ==
  {[mkConfig(FALSE, FALSE, FALSE, d) EXCEPT
      !.VersionDefinitions = defs, !.VersionScriptGlobals = globals,
      !.VersionScriptLocals = locals, !.NoUndefinedVersion = strict] :
     d \in {VER_NDX_GLOBAL, VER_NDX_LOCAL}, defs \in DefLists, globals \in GlobalLists,
     locals \in LocalLists, strict \in BOOLEAN}

ScanVersionScript == ~hist.scanned /\ Step(scanVersionScript(Cur))

InitVersion ==
  /\ InitTable
  /\ Config \in {c \in VersionConfigs :
                   c.VersionDefinitions = << >> \/ c.VersionScriptGlobals = << >>}

NextVersion ==
  \/ /\ ~hist.scanned
     /\ \E n \in VNames :
          AddRegular(n, STV_DEFAULT, STT_OBJECT, 0, 0, STB_GLOBAL, ".text", "x.o")
  \/ /\ ~hist.scanned
     /\ AddUndefined("foo_baz", STB_GLOBAL, STV_DEFAULT, STT_NOTYPE, "x.o")
  \/ ScanVersionScript

SpecVersion == InitVersion /\ [][NextVersion]_vars

(* ------------------------------ properties ---------------------------- *)
Events == {log[i] : i \in 1..Len(log)}

Slots == 1..Len(SymVector)

\* C1: the store holds exactly one Symbol per name: no two Symbols of
\* SymVector have the same name, Symtab maps each name that has a Symbol to
\* that Symbol, and a call for a name that already has a Symbol gets the same
\* Symbol back, is told it was not inserted, and creates no Symbol.
OneSymbolPerName ==
  /\ \A i, j \in Slots : SymVector[i].key = SymVector[j].key => i = j
  /\ \A i \in Slots : /\ SymVector[i].key \in DOMAIN Symtab
                      /\ Symtab[SymVector[i].key].Idx = i - 1
  /\ \A n \in DOMAIN Symtab : Symtab[n].Idx # -1 => Symtab[n].Idx + 1 \in Slots
  /\ \A e \in Events :
       e.idx0 # -1 /\ e.c.op # "wrap" =>
         ~e.WasInserted /\ e.idx1 = e.idx0 /\ e.size1 = e.size0

\* a traced name got its Symbol, and a later call found that Symbol again
OneSymbolPerNameWitness ==
  /\ Len(SymVector) >= 2
  /\ \E e \in Events : /\ e.idx0 # -1 /\ e.c.op # "wrap"
                       /\ Symtab[e.c.Name].Traced
                       /\ e.idx1 = e.idx0

\* the rule table of the comparison, by the kind of the existing body
RuleTable(Kind, SlotBinding, WasInserted, Binding) ==
  IF WasInserted THEN 1
  ELSE IF Kind \in {"LazyArchive", "LazyObject", "Undefined", "Shared"} THEN 1
  ELSE IF Binding = STB_WEAK THEN -1
  ELSE IF SlotBinding = STB_WEAK THEN 1
  ELSE 0

\* C2: compareDefined follows the rule table on every Symbol the table can
\* hold, for both values of WasInserted and both incoming bindings, and the
\* outcome of every addCommon call is the table's; a non-common definition
\* gets the table's outcome unless that is a conflict.
CompareDefinedRules ==
  /\ \A i \in Slots, w \in BOOLEAN, b \in {STB_GLOBAL, STB_WEAK} :
       compareDefined(SymVector[i], w, b)
         = RuleTable(SymVector[i].Body.Kind, SymVector[i].Binding, w, b)
  /\ \A e \in Events :
       LET r == RuleTable(e.pre.Body.Kind, e.pre.Binding, e.WasInserted, e.c.Binding)
       IN /\ e.c.op = "addCommon" => e.Cmp = r
          /\ e.c.op \in {"addRegular", "addSynthetic", "addBitcode"} /\ r # 0 => e.Cmp = r

\* a strong common symbol met a strong definition, next to a lazy symbol
CompareDefinedRulesWitness ==
  /\ \E e \in Events : /\ e.c.op = "addCommon" /\ e.Cmp = 0
                       /\ e.pre.Body.Kind \in {"DefinedRegular", "DefinedCommon",
                                               "DefinedSynthetic"}
  /\ \E i \in Slots : SymVector[i].Body.Kind = "LazyArchive"


isDuplicateMsg(d) == d.msg \in {"duplicate symbol", "previous definition was here"}

DuplicateDiags(e) == {e.diags[i] : i \in {j \in 1..Len(e.diags) : isDuplicateMsg(e.diags[j])}}

\* a strong non-common definition arrives at a strong real non-common one
isStrongConflict(e) ==
  /\ e.c.op \in {"addRegular", "addSynthetic", "addBitcode"}
  /\ e.c.Binding # STB_WEAK
  /\ e.idx0 # -1
  /\ e.pre.Body.Kind \in {"DefinedRegular", "DefinedSynthetic"}
  /\ e.pre.Binding # STB_WEAK

\* the duplicate is reported, as an error unless multiple definitions are
\* allowed, and the first body stays
DuplicateReported(e) ==
  /\ DuplicateDiags(e) # {}
  /\ e.post.Body = e.pre.Body
  /\ \A d \in DuplicateDiags(e) :
       d.sev = IF Config.AllowMultipleDefinition THEN "warning" ELSE "error"
  /\ IF Config.AllowMultipleDefinition THEN e.err1 = e.err0 ELSE e.err1 > e.err0

\* both symbols are absolute (no section), global, and have the same value
isSameAbsolute(e) ==
  /\ e.c.op = "addRegular" /\ e.c.Section = Null /\ e.c.Binding = STB_GLOBAL
  /\ e.pre.Body.Kind = "DefinedRegular" /\ e.pre.Body.Section = Null
  /\ e.pre.Body.Value = e.c.Value

\* C3 as stated: every strong non-common definition arriving at a strong real
\* non-common definition is reported as a duplicate and the first body is kept.
DuplicateAlwaysReported ==
  \A e \in Events : isStrongConflict(e) => DuplicateReported(e)

\* C3: a strong non-common definition arriving at a strong real non-common
\* definition is reported as a duplicate (an error, or a warning when multiple
\* definitions are allowed) and the first body is kept, unless both are
\* absolute global symbols of the same value: then the first body is kept and
\* nothing is reported.
DuplicateReportedUnlessSameAbsolute ==
  \A e \in Events :
    isStrongConflict(e) =>
      IF isSameAbsolute(e)
      THEN DuplicateDiags(e) = {} /\ e.post.Body = e.pre.Body /\ e.err1 = e.err0
      ELSE DuplicateReported(e)

\* a section-backed strong definition met a strong one and raised the error count
DuplicateReportedWitness ==
  \E e \in Events : /\ isStrongConflict(e) /\ ~isSameAbsolute(e)
                    /\ e.c.Section # Null /\ e.pre.Body.Section # Null
                    /\ DuplicateDiags(e) # {} /\ e.err1 > e.err0

SymOf(Name) == SymVector[Symtab[Name].Idx + 1]

hasSym(Name) == Name \in DOMAIN Symtab /\ Symtab[Name].Idx # -1

isWrapEvent(e) == e.c.op = "wrap"

\* C9 as stated: after wrap(foo), foo has the body of __wrap_foo and __real_foo
\* has the body foo had when wrap was called.
WrapKeepsBodyBeforeCall ==
  \A e \in Events :
    isWrapEvent(e) =>
      /\ hasSym("__wrap_" \o e.c.Name) /\ hasSym("__real_" \o e.c.Name)
      /\ SymOf(e.c.Name).Body = SymOf("__wrap_" \o e.c.Name).Body
      /\ SymOf("__real_" \o e.c.Name).Body = e.pre.Body

\* some call of this operation fetched a file
FetchedAny == \E e \in Events : e.fetched # Null

\* C9: after wrap(foo), foo has the body of __wrap_foo whatever the two
\* bindings are, and __real_foo has the body foo had once the references to
\* __real_foo and __wrap_foo were added: the body foo had when wrap was called
\* unless adding these references fetched a file.
WrapKeepsBodyAtCopy ==
  \A e \in Events :
    isWrapEvent(e) =>
      /\ hasSym("__wrap_" \o e.c.Name) /\ hasSym("__real_" \o e.c.Name)
      /\ SymOf(e.c.Name).Body = SymOf("__wrap_" \o e.c.Name).Body
      /\ SymOf("__real_" \o e.c.Name).Body = e.mid.Body
      /\ ~FetchedAny => e.mid.Body = e.pre.Body
      /\ e.Cmp = NoCmp

\* a strong definition of foo was wrapped: foo is now the undefined
\* __wrap_foo and __real_foo has the definition
WrapKeepsBodyAtCopyWitness ==
  \E e \in Events : /\ isWrapEvent(e)
                    /\ e.pre.Body.Kind = "DefinedRegular" /\ ~isWeak(e.pre)
                    /\ isUndefined(SymOf(e.c.Name).Body)
                    /\ SymOf("__real_" \o e.c.Name).Body = e.pre.Body


Max(S) == CHOOSE m \in S : \A x \in S : x <= m

\* the names that got common symbols and no contribution of another kind
OnlyCommons ==
  {c.Name : c \in hist.commons}
    \ (hist.strongRef \cup hist.weakRef \cup hist.offered \cup hist.defd \cup hist.wrapped)

CommonsOf(n) == {c \in hist.commons : c.Name = n}

StrongCommonsOf(n) == {c \in CommonsOf(n) : c.Binding # STB_WEAK}

\* C4 as stated: a name that got only common symbols has a DefinedCommon of
\* the largest contributed size and the largest contributed alignment, and no
\* addCommon call makes the size or the alignment of a common symbol smaller.
CommonRatchet ==
  /\ \A n \in OnlyCommons :
       /\ hasSym(n) /\ isCommon(SymOf(n).Body)
       /\ SymOf(n).Body.Size = Max({c.Size : c \in CommonsOf(n)})
       /\ SymOf(n).Body.Alignment = Max({c.Alignment : c \in CommonsOf(n)})
  /\ \A e \in Events :
       isCommonEv(e) /\ isCommon(e.pre.Body) =>
         /\ e.post.Body.Size >= e.pre.Body.Size
         /\ e.post.Body.Alignment >= e.pre.Body.Alignment

\* C4: a name that got only common symbols has a DefinedCommon.  If some of
\* them were not weak, its size and alignment are the largest size and the
\* largest alignment of those that were not weak, in whatever order they came;
\* if all were weak it is one of them as contributed.  No addCommon call makes
\* the size or the alignment of a common symbol that is not weak smaller.
CommonRatchetOfStrong ==
  /\ \A n \in OnlyCommons :
       /\ hasSym(n) /\ isCommon(SymOf(n).Body)
       /\ IF StrongCommonsOf(n) # {}
          THEN /\ SymOf(n).Body.Size = Max({c.Size : c \in StrongCommonsOf(n)})
               /\ SymOf(n).Body.Alignment = Max({c.Alignment : c \in StrongCommonsOf(n)})
               /\ ~isWeak(SymOf(n))
          ELSE /\ isWeak(SymOf(n))
               /\ \E c \in CommonsOf(n) : /\ SymOf(n).Body.Size = c.Size
                                          /\ SymOf(n).Body.Alignment = c.Alignment
  /\ \A e \in Events :
       isCommonEv(e) /\ isCommon(e.pre.Body) /\ ~isWeak(e.pre) =>
         /\ e.post.Body.Size >= e.pre.Body.Size
         /\ e.post.Body.Alignment >= e.pre.Body.Alignment

\* strong common symbols (16, 4) and (8, 8) have been merged, the smaller one
\* last: the size is that of one, the alignment that of the other
CommonRatchetOfStrongWitness ==
  /\ "foo" \in OnlyCommons
  /\ StrongCommonsOf("foo") = { [Name |-> "foo", Size |-> 16, Alignment |-> 4,
                                 Binding |-> STB_GLOBAL],
                                [Name |-> "foo", Size |-> 8, Alignment |-> 8,
                                 Binding |-> STB_GLOBAL] }
  /\ \E e \in Events : isCommonEv(e) /\ e.Cmp = 0 /\ e.c.Size = 8
                       /\ e.pre.Body.Alignment = 4
  /\ SymOf("foo").Body.Size = 16 /\ SymOf("foo").Body.Alignment = 8


\* the names the inputs refer to, define or offer
Names == {"foo", "bar", "__wrap_foo"}

\* the archive member and the lazy object that offer name n
Offering(n) ==
  {MemberOf(n) : i \in {j \in 1..Len(ArchiveSyms) : ArchiveSyms[j] = n}}
    \cup {"lazy.o(obj)" : i \in {j \in 1..Len(LazyObjectSyms) : LazyObjectSyms[j] = n}}

\* C5: a name that wrap did not rename and that every undefined reference so
\* far referred to weakly has had no archive member and no lazy object that
\* offers it extracted, whether the offer came before or after the references.
WeakNeverFetches ==
  \A n \in Names :
    n \notin hist.strongRef /\ n \notin hist.wrapped => Offering(n) \cap Seen = {}

\* foo was referred to weakly only and offered by an archive or a lazy
\* object; it stays lazy and nothing that offers it has been extracted
WeakNeverFetchesWitness ==
  /\ "foo" \in hist.weakRef /\ "foo" \in hist.offered
  /\ "foo" \notin hist.strongRef /\ "foo" \notin hist.wrapped
  /\ hasSym("foo") /\ isLazy(SymOf("foo").Body)
  /\ Offering("foo") \cap Seen = {}

\* C6: a name with a strong undefined reference and a lazy offer, which no
\* definition, common symbol or wrap touched otherwise, has had a member or a
\* lazy object that offers it extracted, whatever the order of the weak
\* references, the strong references and the offer.
StrongRefExtracts ==
  \A n \in Names :
    /\ n \in hist.strongRef /\ n \in hist.offered
    /\ n \notin hist.defd /\ n \notin hist.wrapped /\ CommonsOf(n) = {}
    => Offering(n) \cap Seen # {}


\* the pattern names the symbol: by its name, or by its demangled name for an
\* extern "C++" pattern; literally, or as a glob
PatternMatches(Ver, n) ==
  LET name == IF Ver.IsExternCpp /\ demangle(n) # Null THEN demangle(n) ELSE n
  IN IF Ver.HasWildcard THEN match(Ver.Name, name) ELSE Ver.Name = name

ListMatches(Vers, n, wild) ==
  \E k \in DOMAIN Vers : Vers[k].HasWildcard = wild /\ PatternMatches(Vers[k], n)

\* the definitions (by position) that list n exactly / match n by a wildcard
ExactDefs(n) ==
  {i \in DOMAIN Config.VersionDefinitions :
     ListMatches(Config.VersionDefinitions[i].Globals, n, FALSE)}

WildDefs(n) ==
  {i \in DOMAIN Config.VersionDefinitions :
     ListMatches(Config.VersionDefinitions[i].Globals, n, TRUE)}

InLocalList(n) ==
  ListMatches(Config.VersionScriptLocals, n, FALSE)
    \/ ListMatches(Config.VersionScriptLocals, n, TRUE)

DefinedSlots == {i \in Slots : ~isUndefined(SymVector[i].Body)}

\* C7 as stated: after scanVersionScript a defined symbol listed exactly in a
\* definition has that definition's id, and one that only wildcards match has
\* the id of the last definition whose wildcard matches it.
VersionPrecedence ==
  hist.scanned =>
    \A i \in DefinedSlots :
      LET n == SymVector[i].key
          Defs == Config.VersionDefinitions
      IN /\ \A d \in ExactDefs(n) : SymVector[i].VersionId = Defs[d].Id
         /\ ExactDefs(n) = {} /\ WildDefs(n) # {} =>
              SymVector[i].VersionId = Defs[Max(WildDefs(n))].Id

\* C7: after scanVersionScript a defined symbol listed exactly in some
\* definition has the id of the last definition that lists it exactly,
\* whatever wildcards match it; a defined symbol that no definition lists
\* exactly, that no pattern of the local: list matches and that some wildcard
\* of a definition matches has the id of the last definition whose wildcard
\* matches it.
VersionPrecedenceLastListed ==
  hist.scanned =>
    \A i \in DefinedSlots :
      LET n == SymVector[i].key
          Defs == Config.VersionDefinitions
      IN /\ ExactDefs(n) # {} => SymVector[i].VersionId = Defs[Max(ExactDefs(n))].Id
         /\ ExactDefs(n) = {} /\ WildDefs(n) # {} /\ ~InLocalList(n) =>
              SymVector[i].VersionId = Defs[Max(WildDefs(n))].Id

\* foo_bar is listed exactly in the definition declared last and matched by
\* the wildcard of the first; foo_baz is matched by that wildcard only
VersionPrecedenceWitness ==
  /\ hist.scanned
  /\ hasSym("foo_bar") /\ hasSym("foo_baz")
  /\ ExactDefs("foo_bar") = {2} /\ WildDefs("foo_bar") = {1}
  /\ SymOf("foo_bar").VersionId = 3
  /\ WildDefs("foo_baz") = {1} /\ SymOf("foo_baz").VersionId = 2

\* C8: once scanVersionScript has given a symbol a version by an exact name,
\* in a named definition or in the global: or local: list of the anonymous
\* version, no wildcard assignment changes the version of that symbol.
ExactNeverOverwritten ==
  \A i, j \in 1..Len(log) :
    /\ i < j
    /\ log[i].c.op = "assignExactVersion"
    /\ log[j].c.op = "assignWildcardVersion"
    /\ log[i].c.Name = log[j].c.Name
    => log[j].post.VersionId = log[j].pre.VersionId


(* ----------------------- files, lookups, LTO bridge ------------------- *)
Range(f) == {f[i] : i \in DOMAIN f}

\* the messages of an event
Msgs(e) == {e.diags[i].msg : i \in 1..Len(e.diags)}

isFileEvent(e) == e.c.op = "addFile"

\* the input is for another target than the link's: an object, a DSO or a
\* bitcode file of another ELF class or machine, or of the other MIPS ABI
Incompatible(F) ==
  /\ FileKind(F) \in {"ObjectKind", "SharedKind", "BitcodeKind"}
  /\ \/ FileEKind(F) # Config.EKind
     \/ FileEMachine(F) # Config.EMachine
     \/ Config.EMachine = "EM_MIPS" /\ isMipsN32Abi(F) # Config.MipsN32Abi

\* what parse() hands to the table for file F
SymsOf(F) ==
  CASE FileKind(F) = "ArchiveKind" -> lazySyms("addLazyArchive", F, ArchiveSyms)
    [] FileKind(F) = "LazyObjectKind" -> lazySyms("addLazyObject", F, LazyObjectSyms)
    [] OTHER -> FileSyms(F)

\* the file list an input of this kind is kept in (none for archives and
\* lazy objects)
ListOf(F) ==
  CASE FileKind(F) = "ObjectKind" -> ObjectFiles
    [] FileKind(F) = "SharedKind" -> SharedFiles
    [] FileKind(F) = "BitcodeKind" -> BitcodeFiles
    [] FileKind(F) = "BinaryKind" -> BinaryFiles
    [] OTHER -> <<F>>

\* the addFile call of event log[i] processed its file: the file is in its
\* list (for a DSO: one of the same soname is) and each of its symbols was
\* contributed, by this call or (a DSO seen before) by an earlier one
Processed(i) ==
  LET F == log[i].c.File
  IN IF FileKind(F) = "SharedKind" /\ log[i].syms = << >>
     THEN \E G \in Range(SharedFiles) : SoName(G) = SoName(F)
     ELSE /\ F \in Range(ListOf(F))
          /\ log[i].syms = SymsOf(F)
          /\ \A k \in 1..Len(SymsOf(F)) :
               \E j \in (i + 1)..Len(log) : log[j].c = SymsOf(F)[k]

\* a duplicate definition or a common override was recorded before event i
DiagnosedBefore(i) ==
  \/ hist.diags0 # {}
  \/ \E j \in 1..(i - 1) : Msgs(log[j]) \cap Recoverable # {}

\* C12: every input that addFile is handed after a duplicate definition or a
\* common override was recorded, and that is for the link's target, is
\* processed and contributes its symbols, whatever its kind.
PassGoesOn ==
  \A i \in 1..Len(log) :
    isFileEvent(log[i]) /\ ~Incompatible(log[i].c.File) /\ DiagnosedBefore(i)
      => Processed(i)

\* C13: addFile on an input for another target records the error "is
\* incompatible with" and nothing else happens: no symbol of the file is
\* contributed, and the name table, the Symbols and the four file lists are as
\* they were; an input for the link's target gets no such error.
IncompatibleContributesNothing ==
  \A i \in 1..Len(log) :
    isFileEvent(log[i]) =>
      IF Incompatible(log[i].c.File)
      THEN /\ log[i].diags = <<[sev |-> "error", msg |-> "is incompatible with"]>>
           /\ log[i].err1 = log[i].err0 + 1
           /\ log[i].syms = << >>
           /\ log[i].same.tab /\ log[i].same.syms /\ log[i].same.files
           /\ \A j \in 1..Len(log) : j # i => log[j].c.File # log[i].c.File
      ELSE "is incompatible with" \notin Msgs(log[i])

\* a MIPS n32 object was handed to an o32 link that has Symbols already
IncompatibleContributesNothingWitness ==
  /\ Config.EMachine = "EM_MIPS" /\ ~Config.MipsN32Abi
  /\ Len(SymVector) > 0 /\ ObjectFiles # << >>
  /\ \E e \in Events : isFileEvent(e) /\ e.c.File = "n32.o" /\ e.err1 > e.err0

Inserted(n) == \E i \in Slots : SymVector[i].key = n

\* C17: find(name) leaves the name table and the Symbols as they were and
\* returns the body of the name's Symbol, or nothing for a name without a
\* Symbol: one never seen, or one that trace() registered only.
FindDoesNotCreate ==
  \A e \in Events :
    e.c.op = "find" =>
      /\ e.same.tab /\ e.same.syms /\ e.size1 = e.size0
      /\ e.ret = IF Inserted(e.c.Name)
                 THEN (CHOOSE S \in Range(SymVector) : S.key = e.c.Name).Body
                 ELSE NoBody

\* find was called for a name that trace() registered and nothing inserted
FindDoesNotCreateWitness ==
  /\ Len(SymVector) > 0
  /\ \E e \in Events : /\ e.c.op = "find"
                       /\ e.c.Name \in DOMAIN Symtab /\ Symtab[e.c.Name].Traced
                       /\ ~Inserted(e.c.Name)
                       /\ e.ret = NoBody


(* ------------------------- merged attributes -------------------------- *)
\* the call meets a Symbol whose body has a known type of the other TLS-ness
isTlsFlip(e) ==
  /\ e.idx0 # -1
  /\ e.pre.Body.Type # UnknownType
  /\ (e.c.Type = STT_TLS) # (e.pre.Body.Type = STT_TLS)

\* C11: a call that goes through the attribute-carrying insert and meets a
\* Symbol whose body has a known type of the other TLS-ness records the error
\* "TLS attribute mismatch" and raises the error count, whether its
\* contribution wins, loses or conflicts and whether multiple definitions are
\* allowed; a call that creates the Symbol, meets a body of unknown type or
\* has the same TLS-ness records no such error.
TlsMismatchIsError ==
  \A e \in Events :
    isAttrEv(e) =>
      IF isTlsFlip(e)
      THEN /\ [sev |-> "error", msg |-> "TLS attribute mismatch"] \in Range(e.diags)
           /\ e.err1 > e.err0
      ELSE "TLS attribute mismatch" \notin Msgs(e)

\* a weak TLS definition lost against a strong object while multiple
\* definitions are allowed, and the mismatch raised the error count
TlsMismatchIsErrorWitness ==
  /\ Config.AllowMultipleDefinition
  /\ \E e \in Events : /\ isTlsFlip(e) /\ e.c.op = "addRegular" /\ e.Cmp = -1
                       /\ e.c.Type = STT_TLS
                       /\ e.err1 = e.err0 + 1

\* the most restrictive visibility of a set: internal, then hidden, then
\* protected, then default
MostRestrictive(V) ==
  IF STV_INTERNAL \in V THEN STV_INTERNAL
  ELSE IF STV_HIDDEN \in V THEN STV_HIDDEN
  ELSE IF STV_PROTECTED \in V THEN STV_PROTECTED
  ELSE STV_DEFAULT

Restrictiveness(v) ==
  CASE v = STV_DEFAULT -> 0 [] v = STV_PROTECTED -> 1 [] v = STV_HIDDEN -> 2
    [] v = STV_INTERNAL -> 3

\* the visibilities of the attribute-carrying contributions to name n so far
Contributed(n) == {p[3] : p \in {q \in hist.vis : q[1] = n}}

\* the same, a contribution from a shared library counting as default
ContributedNotShared(n) ==
  {IF p[2] THEN STV_DEFAULT ELSE p[3] : p \in {q \in hist.vis : q[1] = n}}

NeverLessRestrictive ==
  \A e \in Events :
    e.idx0 # -1 /\ e.idx1 # -1 =>
      Restrictiveness(e.post.Visibility) >= Restrictiveness(e.pre.Visibility)

\* C16 as stated: the visibility of a Symbol is the most restrictive of the
\* visibilities of all contributions to its name, and no call makes it less
\* restrictive.
VisibilityMostRestrictive ==
  /\ \A i \in Slots :
       SymVector[i].Visibility = MostRestrictive(Contributed(SymVector[i].key))
  /\ NeverLessRestrictive

\* C16: the visibility of a Symbol is the most restrictive of the
\* visibilities of the contributions to its name that did not come from a
\* shared library (default when there is none), in whatever order they came
\* and whether they won, lost or conflicted; no call makes it less restrictive.
VisibilityMostRestrictiveNotShared ==
  /\ \A i \in Slots :
       SymVector[i].Visibility = MostRestrictive(ContributedNotShared(SymVector[i].key))
  /\ NeverLessRestrictive

\* hidden came first; a protected contribution then lost or conflicted and
\* the Symbol stayed hidden
VisibilityMostRestrictiveNotSharedWitness ==
  /\ hasSym("foo") /\ SymOf("foo").Visibility = STV_HIDDEN
  /\ \E e \in Events : /\ e.c.op \in {"addRegular", "addCommon"}
                       /\ e.Cmp \in {-1, 0}
                       /\ getVisibility(e.c.StOther) = STV_PROTECTED
                       /\ e.pre.Visibility = STV_HIDDEN


(* ----------------------- commons, losers, order ----------------------- *)
isNonCommonDef(e) == e.c.op \in {"addRegular", "addSynthetic", "addBitcode"}

\* the body the call constructs when its definition wins
NewBody(c) ==
  CASE c.op = "addRegular" ->
         DefinedRegular(c.Name, c.StOther, c.Type, c.Value, c.Size, c.Section, c.File)
    [] c.op = "addSynthetic" -> DefinedSynthetic(c.Name, c.Value, c.Section)
    [] c.op = "addBitcode" -> DefinedRegular(c.Name, c.StOther, c.Type, 0, 0, Null, c.File)

\* C15 as stated: a regular, synthetic or bitcode definition contributed to a
\* Symbol whose body is a DefinedCommon becomes the body, and no duplicate
\* symbol is reported.
NonCommonBeatsCommon ==
  \A e \in Events :
    isNonCommonDef(e) /\ isCommon(e.pre.Body) =>
      e.post.Body = NewBody(e.c) /\ DuplicateDiags(e) = {}

\* C15: a regular, synthetic or bitcode definition that is not weak,
\* contributed to a Symbol whose body is a DefinedCommon (weak or not),
\* becomes the body; a weak one loses and the common symbol stays; in neither
\* case a duplicate symbol is reported.
StrongNonCommonBeatsCommon ==
  \A e \in Events :
    isNonCommonDef(e) /\ isCommon(e.pre.Body) =>
      /\ DuplicateDiags(e) = {}
      /\ IF e.c.Binding # STB_WEAK
         THEN e.post.Body = NewBody(e.c) /\ e.Cmp = 1
         ELSE e.post.Body = e.pre.Body /\ e.Cmp = -1

\* a strong regular definition met a strong common symbol and replaced it
StrongNonCommonBeatsCommonWitness ==
  \E e \in Events : /\ e.c.op = "addRegular" /\ e.c.Binding = STB_GLOBAL
                    /\ isCommon(e.pre.Body) /\ ~isWeak(e.pre)
                    /\ e.post.Body.Kind = "DefinedRegular"

\* C20: a contribution that loses the comparison leaves the body and the
\* binding of its Symbol, every other Symbol, the name table and the file
\* lists as they were and creates no Symbol; of its own Symbol only the
\* visibility and the flags ExportDynamic and IsUsedInRegularObj may change.
LoserLeavesStore ==
  \A e \in Events :
    e.Cmp = -1 =>
      /\ ~e.WasInserted /\ e.idx0 # -1 /\ e.idx1 = e.idx0 /\ e.size1 = e.size0
      /\ e.post.Body = e.pre.Body
      /\ e.post.Binding = e.pre.Binding
      /\ e.post = [e.pre EXCEPT !.Visibility = e.post.Visibility,
                                !.ExportDynamic = e.post.ExportDynamic,
                                !.IsUsedInRegularObj = e.post.IsUsedInRegularObj]
      /\ e.same.others /\ e.same.tab /\ e.same.files

\* a weak definition from an object file lost against a bitcode definition:
\* only IsUsedInRegularObj changed
LoserLeavesStoreWitness ==
  \E e \in Events : /\ e.Cmp = -1 /\ e.c.op = "addRegular" /\ e.c.Binding = STB_WEAK
                    /\ ~e.pre.IsUsedInRegularObj /\ e.post.IsUsedInRegularObj
                    /\ e.post.Body = e.pre.Body

\* the names of the Symbols, in the order of SymVector
Keys(v) == [i \in 1..Len(v) |-> v[i].key]

\* the index Symtab keeps for a name designates the Symbol created for that
\* name, no two Symbols were created for one name, and the Symbols the last
\* operation created were appended one by one in the order of its calls
IndexDesignates ==
  /\ \A i, j \in Slots : SymVector[i].key = SymVector[j].key => i = j
  /\ \A n \in DOMAIN Symtab :
       Symtab[n].Idx # -1 =>
         Symtab[n].Idx + 1 \in Slots /\ SymVector[Symtab[n].Idx + 1].key = n
  /\ \A k \in 1..Len(log) :
       log[k].WasInserted =>
         /\ log[k].idx1 = log[k].size0
         /\ log[k].size1 = log[k].size0 + 1
         /\ SymVector[log[k].idx1 + 1].key = log[k].c.Name

\* C18: no call removes or moves an entry of SymVector: the Symbols it held
\* stay at their places, with the indices Symtab keeps for them, and new ones
\* come behind them, one for each name that had none, in the order the calls
\* created them; and the index that Symtab keeps for a name designates the
\* Symbol created for that name, after any sequence of calls.
AppendOnly ==
  /\ []IndexDesignates
  /\ [][/\ Len(SymVector') >= Len(SymVector)
        /\ SubSeq(Keys(SymVector'), 1, Len(SymVector)) = Keys(SymVector)
        /\ \A n \in DOMAIN Symtab :
             /\ n \in DOMAIN Symtab'
             /\ Symtab[n].Idx # -1 => Symtab'[n].Idx = Symtab[n].Idx]_vars

\* four Symbols, the last two made by wrap behind the first two
AppendOnlyWitness ==
  /\ Len(SymVector) >= 4
  /\ \E e \in Events : isWrapEvent(e)
  /\ \E i, j \in Slots : /\ i < j
                         /\ SymVector[i].key = "__real_foo"
                         /\ SymVector[j].key = "__wrap_foo"


(* ------------------- diagnostics of exact assignments ----------------- *)
isNotDefined(e) == e.c.op = "assignExactVersion: not defined"

\* the exact patterns of the script: those of the anonymous version and of
\* the version definitions
ExactPatterns ==
  {v \in Range(Config.VersionScriptGlobals) \cup Range(Config.VersionScriptLocals)
         \cup UNION {Range(Config.VersionDefinitions[i].Globals) :
                       i \in DOMAIN Config.VersionDefinitions} : ~v.HasWildcard}

\* C19: an exact assignment that names no defined symbol (the name is absent
\* or undefined) stamps nothing; it records one error in a strict link
\* (NoUndefinedVersion) and nothing otherwise.  An exact assignment to a symbol
\* that the script has assigned already gives a warning, stamps again and
\* leaves the error count as it is.  After the pass no undefined symbol
\* carries a stamp.
ExactAssignmentDiagnostics ==
  /\ \A e \in Events :
       isNotDefined(e) =>
         /\ ~e.ret.IsExternCpp => e.idx0 = -1 \/ isUndefined(e.pre.Body)
         /\ \A i \in DefinedSlots : ~PatternMatches(e.ret, SymVector[i].key)
         /\ e.same.syms /\ e.same.tab
         /\ IF Config.NoUndefinedVersion
            THEN /\ e.err1 = e.err0 + 1
                 /\ e.diags = <<[sev |-> "error",
                                 msg |-> "version script assignment failed: symbol not defined"]>>
            ELSE e.err1 = e.err0 /\ e.diags = << >>
  /\ \A e \in Events :
       e.c.op = "assignExactVersion" =>
         /\ e.err1 = e.err0
         /\ e.diags = IF e.pre.InVersionScript
                      THEN <<[sev |-> "warning", msg |-> "duplicate symbol in version script"]>>
                      ELSE << >>
         /\ e.post.VersionId = e.c.Value /\ e.post.InVersionScript
  /\ hist.scanned =>
       /\ \A i \in Slots :
            isUndefined(SymVector[i].Body) =>
              /\ ~SymVector[i].InVersionScript
              /\ SymVector[i].VersionId = Config.DefaultSymbolVersion
       /\ \A v \in ExactPatterns :
            (\A i \in DefinedSlots : ~PatternMatches(v, SymVector[i].key))
              => \E e \in Events : isNotDefined(e) /\ e.ret = v

\* a strict link: the local: list names foo_baz, which is only referred to,
\* and two definitions list foo_bar, which is defined
ExactAssignmentDiagnosticsWitness ==
  /\ Config.NoUndefinedVersion
  /\ \E e \in Events : /\ isNotDefined(e) /\ e.c.Name = "foo_baz"
                       /\ e.idx0 # -1 /\ isUndefined(e.pre.Body)
                       /\ e.err1 = e.err0 + 1
  /\ \E e \in Events : /\ e.c.op = "assignExactVersion" /\ e.pre.InVersionScript
                       /\ e.diags # << >>
  /\ hasSym("foo_baz") /\ ~SymOf("foo_baz").InVersionScript


(* ---------------- pairs of contributions to a fresh name -------------- *)
\* the kind of contribution that left body B in a fresh Symbol
KindOfBody(B) ==
  CASE B.Kind = "Undefined" -> "undefined"
    [] B.Kind = "DefinedRegular" ->
         IF B.File # Null /\ FileKind(B.File) = "BitcodeKind" THEN "bitcode" ELSE "regular"
    [] B.Kind = "DefinedCommon" -> "common"
    [] B.Kind = "DefinedSynthetic" -> "synthetic"
    [] B.Kind = "Shared" -> "shared"
    [] B.Kind \in {"LazyArchive", "LazyObject"} -> "lazy"
    [] OTHER -> "none"

KindOfOp(op) ==
  CASE op = "addUndefined" -> "undefined"
    [] op = "addRegular" -> "regular"
    [] op = "addBitcode" -> "bitcode"
    [] op = "addCommon" -> "common"
    [] op = "addSynthetic" -> "synthetic"
    [] op = "addShared" -> "shared"
    [] op \in {"addLazyArchive", "addLazyObject"} -> "lazy"
    [] OTHER -> "none"

LocalDefs == {"regular", "bitcode", "common", "synthetic"}

AnyDefs == LocalDefs \cup {"shared"}

\* the body a contribution constructs for its Symbol
BodyOf(c) ==
  CASE c.op = "addCommon" ->
         DefinedCommon(c.Name, c.Size, c.Alignment, c.StOther, c.Type, c.File)
    [] c.op = "addShared" -> SharedSymbol(c.File, c.Name, c.StOther, c.Type)
    [] OTHER -> NewBody(c)

\* the first contribution to a fresh name, as the Symbol it left shows it,
\* and the second one, as it was called
First(e) == [k |-> KindOfBody(e.pre.Body), strong |-> ~isWeak(e.pre)]

Second(e) == [k |-> KindOfOp(e.c.op), strong |-> e.c.Binding # STB_WEAK]

\* the pairs with an order-independent result: a prevails over b
Prevails(a, b, OverLazy) ==
  \/ a.k = "regular" /\ a.strong /\ b.k = "regular" /\ ~b.strong
  \/ a.k = "regular" /\ a.strong /\ b.k = "common" /\ b.strong
  \/ a.k \in AnyDefs /\ b.k = "undefined"
  \/ a.k \in LocalDefs /\ b.k = "shared"
  \/ a.k \in OverLazy /\ b.k = "lazy"

\* the second contribution to a fresh name has just been made
isSecond(e) == nops = 2 /\ Len(log) = 1 /\ e = log[1] /\ e.idx0 # -1

PairsDecided(OverLazy) ==
  \A e \in Events :
    isSecond(e) =>
      /\ Prevails(First(e), Second(e), OverLazy) => e.post.Body = e.pre.Body
      /\ Prevails(Second(e), First(e), OverLazy) => e.post.Body = BodyOf(e.c)

\* C23 as stated: of two contributions to a fresh name the same one leaves
\* its body, whichever came first, for the pairs: strong regular and weak
\* regular (the strong one), strong regular and strong common (the regular
\* one), a definition and an undefined reference, a local definition and a
\* shared one (the local one), a definition and a lazy symbol (the definition).
PairsOrderIndependent == PairsDecided(AnyDefs)

\* C23: the same for these pairs, the last one being a local definition and
\* a lazy symbol; of a shared definition and a lazy symbol the one that came
\* first leaves its body.
PairsOrderIndependentLocal ==
  /\ PairsDecided(LocalDefs)
  /\ \A e \in Events :
       isSecond(e) /\ {First(e).k, Second(e).k} = {"shared", "lazy"} =>
         e.post.Body = e.pre.Body

\* a weak common symbol came second, after a shared definition, and replaced it
PairsOrderIndependentLocalWitness ==
  \E e \in Events : /\ isSecond(e) /\ First(e).k = "shared"
                    /\ Second(e) = [k |-> "common", strong |-> FALSE]
                    /\ e.post.Body.Kind = "DefinedCommon"


(* --------------------- strong definitions that meet ------------------- *)
\* the provisional body of a definition that a bitcode file made
isBitcodeBody(B) ==
  B.Kind = "DefinedRegular" /\ B.File # Null /\ FileKind(B.File) = "BitcodeKind"

\* the body of an absolute symbol: a regular definition that no section owns
isAbsoluteBody(B) == B.Kind = "DefinedRegular" /\ B.Section = Null /\ ~isBitcodeBody(B)

\* an absolute symbol arrives at an absolute symbol of the same value
BothAbsoluteSameValue(e) ==
  /\ e.c.op = "addRegular" /\ e.c.Section = Null
  /\ isAbsoluteBody(e.pre.Body)
  /\ e.pre.Body.Value = e.c.Value

\* the new definition lost, nothing was reported, the first body stays
SilentLose(e) ==
  /\ e.Cmp = -1 /\ DuplicateDiags(e) = {} /\ e.err1 = e.err0
  /\ e.post.Body = e.pre.Body

\* C22: a strong non-common definition that arrives at a strong real
\* non-common definition loses silently if both are absolute symbols of the
\* same value, and is reported as a duplicate in every other case.
SilentExactlyWhenBothAbsolute ==
  \A e \in Events :
    isStrongConflict(e) =>
      IF BothAbsoluteSameValue(e) THEN SilentLose(e)
      ELSE e.Cmp = 0 /\ DuplicateReported(e)

\* what a call did: the result of the comparison, the binding of the Symbol
\* afterwards, whether the body is the call's after a win and the one before
\* otherwise, whether a duplicate was reported and whether the error count
\* went up
Outcome(t) ==
  Let(t.log[1], LAMBDA e :
    [Cmp |-> e.Cmp, Binding |-> e.post.Binding,
     body |-> e.post.Body = (IF e.Cmp = 1 THEN BodyOf(e.c) ELSE e.pre.Body),
     dup |-> DuplicateDiags(e) # {}, err |-> e.err1 > e.err0])

\* a bitcode definition of foo and a section-backed regular one, contributed
\* to the table as it is now
BitcodeNow(b) == addBitcode(Cur, "foo", b, STV_DEFAULT, STT_OBJECT, FALSE, "lto.bc")

RegularNow(b, p) == addRegular(Cur, "foo", STV_DEFAULT, STT_OBJECT, p[2], 0, b, p[1], "x.o")

\* the table with the provisional body of foo taken for that of a regular
\* definition in a section
AsRegular(t) ==
  replaceBody(t, t.Symtab["foo"].Idx,
              [SlotOf(t, "foo").Body EXCEPT !.Section = ".text", !.File = "x.o"])

RegularOver(t, b, p) ==
  addRegular(t, "foo", STV_DEFAULT, STT_OBJECT, p[2], 0, b, p[1], "x.o")

\* addBitcode and addRegular decide alike on every Symbol and binding
BitcodeDecidedAsRegular ==
  \A b \in Bindings :
    Let(Outcome(BitcodeNow(b)), LAMBDA o :
      /\ o = Outcome(RegularNow(b, <<".text", 0>>))
      /\ o.body
      /\ o.Cmp = 1 => o.Binding = b \/ isCommon(preSym(Cur, "foo").Body)
      /\ o.dup <=> o.Cmp = 0)

\* a later regular definition meets a provisional body as it would meet the
\* body of a regular definition; P picks the later definitions
BitcodeBodyAsRegular(P(_, _)) ==
  hasSym("foo") /\ isBitcodeBody(SymOf("foo").Body) =>
    \A b \in Bindings, p \in Places :
      P(b, p) => Outcome(RegularOver(Cur, b, p)) = Outcome(RegularOver(AsRegular(Cur), b, p))

\* C28: addBitcode and addRegular give the same outcome on every Symbol and
\* for both bindings (a win installs the body and sets the binding, a conflict
\* reports a duplicate), and every later regular definition wins over or
\* loses to a provisional bitcode body as it would to a regular body.
BitcodeAsRegular ==
  /\ BitcodeDecidedAsRegular
  /\ BitcodeBodyAsRegular(LAMBDA b, p : TRUE)


(* ------------------- weak references to lazy symbols ------------------ *)
\* C21: a weak undefined reference never fetches: no addUndefined call with
\* weak binding on a Symbol whose body is a LazyArchive or a LazyObject adds
\* a file to the link.
WeakReferenceNeverFetches ==
  \A e \in Events : isWeakRef(e) /\ isLazy(e.pre.Body) => e.fetched = Null

\* a weak reference arrives at a lazy symbol whose binding is weak
isWeakOnWeakLazy(e) == isWeakRef(e) /\ isLazy(e.pre.Body) /\ isWeak(e.pre)

\* C24, as stated: a weak reference at a weak lazy symbol fetches nothing,
\* the body stays lazy and keeps the type it remembered.
WeakOnWeakLazyKeepsType ==
  \A e \in Events :
    isWeakOnWeakLazy(e) =>
      /\ e.fetched = Null
      /\ isLazy(e.post.Body)
      /\ e.post.Body.Type = e.pre.Body.Type

\* C24: a weak reference at a weak lazy symbol fetches nothing, the Symbol
\* stays weak and its body is the same lazy body but for the type, which is
\* that of the reference.
WeakOnWeakLazyTakesType ==
  \A e \in Events :
    isWeakOnWeakLazy(e) =>
      /\ e.fetched = Null
      /\ isWeak(e.post)
      /\ e.post.Body = [e.pre.Body EXCEPT !.Type = e.c.Type]

WeakOnWeakLazyTakesTypeWitness ==
  \E e \in Events :
    /\ isWeakOnWeakLazy(e)
    /\ e.pre.Body.Type # e.c.Type
    /\ isLazy(e.post.Body) /\ e.post.Body.Type = e.c.Type


(* ------------------------- the order of fetches ----------------------- *)
\* every call that fetched a file is followed at once by addFile of that file
FetchThenAddFile ==
  \A i \in 1..Len(log) :
    /\ log[i].fetched # Null =>
          i < Len(log) /\ isFileEvent(log[i + 1]) /\ log[i + 1].c.File = log[i].fetched
    /\ isFileEvent(log[i]) /\ i > 1 => log[i - 1].fetched = log[i].c.File

\* the events from the i-th on are the contributions of todo, each followed
\* by the whole of the file it fetched; todo holds the contributions that
\* the files being parsed have still to make, those of the innermost first
RECURSIVE NestedFrom(_, _)
NestedFrom(i, todo) ==
  IF i > Len(log) THEN todo = << >>
  ELSE IF isFileEvent(log[i]) THEN NestedFrom(i + 1, log[i].syms \o todo)
  ELSE IF todo = << >> THEN NestedFrom(i + 1, todo)
  ELSE /\ log[i].c.op = Head(todo).op /\ log[i].c.Name = Head(todo).Name
       /\ log[i].c.File = Head(todo).File
       /\ NestedFrom(i + 1, Tail(todo))

\* C26: fetches are depth-first: a call that extracts a file is followed by
\* addFile of that file, and every contribution of the file, and of the files
\* these contributions extract in turn, is made before the next contribution
\* of the input that made the call.
FetchesDepthFirst == FetchThenAddFile /\ NestedFrom(1, << >>)

\* a contribution of a file fetched a file, a contribution of the fetched
\* file fetched another one, and the first file contributed again after that
FetchesDepthFirstWitness ==
  \E i, j, k \in 1..Len(log) :
    /\ i < j /\ j < k
    /\ log[i].fetched # Null /\ log[i].c.File \in TopFiles
    /\ log[j].fetched # Null /\ log[j].c.File = log[i].fetched
    /\ ~isFileEvent(log[k]) /\ log[k].c.File = log[i].c.File

(* ------------------------------ the -u flags -------------------------- *)
isFlag(e) == e.c.op = "scanUndefinedFlags"

\* the file behind a lazy body
Behind(B) == IF B.Kind = "LazyArchive" THEN MemberOf(B.Name) ELSE "lazy.o(obj)"

\* the names scanUndefinedFlags visited, in order
FlagNames ==
  Let(SelectSeq(log, isFlag), LAMBDA fl : [j \in 1..Len(fl) |-> fl[j].c.Name])

\* C30: scanUndefinedFlags visits the names of the --undefined list in order;
\* for a name whose body is lazy, whatever the binding of the Symbol, it
\* fetches the file behind the body and adds it unless that file was
\* extracted before; for a name that is absent or not lazy it fetches nothing
\* and leaves the table, the Symbols, the file lists and the diagnostics as
\* they are; no visit creates a Symbol.
FlagsFetchLazy ==
  /\ log # << >> /\ isFlag(log[1]) =>
        FlagNames = Config.Undefined
  /\ \A i \in 1..Len(log) :
        isFlag(log[i]) =>
          Let(log[i], LAMBDA e :
            /\ e.idx1 = e.idx0 /\ e.size1 = e.size0
            /\ IF isLazy(e.pre.Body)
               THEN /\ e.fetched = (IF Behind(e.pre.Body) \in e.ret.seen THEN Null
                                    ELSE Behind(e.pre.Body))
                    /\ e.fetched # Null =>
                          /\ i < Len(log) /\ isFileEvent(log[i + 1])
                          /\ log[i + 1].c.File = e.fetched
                          /\ e.fetched \in Seen
               ELSE /\ e.fetched = Null
                    /\ e.same.tab /\ e.same.syms /\ e.same.files
                    /\ e.err1 = e.err0 /\ e.diags = << >>
                    /\ i < Len(log) => isFlag(log[i + 1]))

\* one flag names a lazy symbol that is not weak, whose file is fetched, the
\* next a symbol that is not lazy
FlagsFetchLazyWitness ==
  \E e, f \in Events :
    /\ isFlag(e) /\ isLazy(e.pre.Body) /\ ~isWeak(e.pre) /\ e.fetched # Null
    /\ isFlag(f) /\ f.idx0 # -1 /\ ~isLazy(f.pre.Body) /\ f.fetched = Null


(* --------------------------- shared libraries ------------------------- *)
isSharedEv(e) == e.c.op = "addShared"

\* C25: every addShared call for a symbol of default visibility leaves
\* ExportDynamic set on the Symbol, whether or not the shared symbol became
\* its body; no addShared call changes the Symbol's visibility; and no
\* operation clears ExportDynamic on a Symbol that has it.
SharedExports ==
  /\ [](\A e \in Events :
          isSharedEv(e) =>
            /\ getVisibility(e.c.StOther) = STV_DEFAULT => e.post.ExportDynamic
            /\ e.post.ExportDynamic => e.pre.ExportDynamic
                                         \/ getVisibility(e.c.StOther) = STV_DEFAULT
            /\ e.post.Visibility = e.pre.Visibility)
  /\ [][\A i \in 1..Len(SymVector) :
           SymVector[i].ExportDynamic => SymVector'[i].ExportDynamic]_vars

\* a shared symbol of default visibility arrives at a hidden Symbol that is
\* defined and not exported: the Symbol stays hidden and is exported
SharedExportsWitness ==
  \E e \in Events :
    /\ isSharedEv(e) /\ getVisibility(e.c.StOther) = STV_DEFAULT
    /\ e.idx0 # -1 /\ ~isUndefined(e.pre.Body) /\ ~e.pre.ExportDynamic
    /\ e.pre.Visibility = STV_HIDDEN
    /\ e.post.ExportDynamic /\ e.post.Visibility = STV_HIDDEN

\* call e marked library L as used: addShared made L's symbol the body of a
\* Symbol that is not weak, or a reference that is not weak met L's symbol
Marks(e, L) ==
  \/ /\ isSharedEv(e) /\ e.c.File = L
     /\ e.WasInserted \/ isUndefined(e.pre.Body)
     /\ isShared(e.post.Body) /\ e.post.Body.File = L
     /\ ~isWeak(e.post)
  \/ /\ isStrongRef(e) /\ ~e.WasInserted
     /\ isShared(e.pre.Body) /\ e.pre.Body.File = L
     /\ isShared(e.post.Body) /\ ~isWeak(e.post)

\* C29: a library becomes used only in an operation with a call that made
\* its shared symbol the body of a Symbol that is not weak or that met its
\* shared symbol with a reference that is not weak; while every reference
\* made was weak no library is used.
UsedOnlyByStrong ==
  /\ [][\A L \in IsUsed' \ IsUsed : \E e \in Events' : Marks(e, L)]_vars
  /\ [](IsUsed # {} => hist.strongRef # {})

\* a weak reference and a library's symbol have met and the library was not
\* used; the first strong reference marks the library whose symbol is the body
UsedOnlyByStrongWitness ==
  /\ hist.weakRef # {}
  /\ \E e \in Events :
       /\ isStrongRef(e) /\ isShared(e.pre.Body) /\ isWeak(e.pre)
       /\ IsUsed = {e.pre.Body.File}


(* -------------------- the index of demangled names -------------------- *)
isDemangleCall(e) == e.c.op = "getDemangledSyms"

\* the Symbols (0-based) that are not undefined, and those filed under key k
DefinedNow == {i \in 0..(Len(SymVector) - 1) : ~isUndefined(SymVector[i + 1].Body)}

FiledUnder(k) == {i \in DefinedNow : demangledKey(SymVector[i + 1].Body) = k}

\* m is the index of the Symbols that are not undefined now: its keys are
\* their demangled names (their names, for names that do not demangle) and
\* each key holds its Symbols once, in the order of insertion
isIndexNow(m) ==
  /\ DOMAIN m = {demangledKey(SymVector[i + 1].Body) : i \in DefinedNow}
  /\ \A k \in DOMAIN m :
       /\ Range(m[k]) = FiledUnder(k)
       /\ \A i, j \in 1..Len(m[k]) : i < j => m[k][i] < m[k][j]

\* C27: a getDemangledSyms call builds the index exactly when none was built
\* before, from the Symbols whose body is not undefined at the call, in
\* insertion order; every call returns the index that is kept, and an index
\* that was built is never changed, whatever is added to the table.
IndexBuiltOnce ==
  /\ [](\A e \in Events :
          isDemangleCall(e) =>
            /\ DemangledSyms.set /\ e.ret.map = DemangledSyms.map
            /\ e.ret.built => isIndexNow(e.ret.map))
  /\ [][/\ DemangledSyms.set => DemangledSyms' = DemangledSyms
        /\ DemangledSyms' # DemangledSyms =>
              \E e \in Events' : isDemangleCall(e) /\ e.ret.built
        /\ \A e \in Events' : isDemangleCall(e) => (e.ret.built <=> ~DemangledSyms.set)]_vars

\* a later call returns the index of the first call although the table has
\* other defined Symbols by now
IndexBuiltOnceWitness ==
  \E e \in Events :
    /\ isDemangleCall(e) /\ ~e.ret.built
    /\ ~isIndexNow(e.ret.map)


(* ------------------------------ traced names -------------------------- *)
\* the name was traced and has no Symbol yet
TracedOnly(n) == n \in DOMAIN Symtab /\ Symtab[n].Idx = -1

\* what insert(n) would do now: for a name without a Symbol it reports a new
\* Symbol, appended to SymVector, with the default attributes and the traced
\* flag of the name; for a name with a Symbol it changes nothing
InsertNow(n) ==
  Let(insert(Cur, n), LAMBDA r :
    IF hasSym(n)
    THEN ~r.IsNew /\ r.t = Cur /\ r.S = Symtab[n].Idx
    ELSE /\ r.IsNew /\ r.S = Len(SymVector)
         /\ r.t.SymVector = Append(SymVector, SymAt(r.t, r.S))
         /\ r.t.Symtab[n] = SymIndex(r.S, TracedOnly(n))
         /\ SymAt(r.t, r.S) =
              [key |-> n, Binding |-> STB_WEAK, Visibility |-> STV_DEFAULT,
               VersionId |-> Config.DefaultSymbolVersion, InVersionScript |-> FALSE,
               IsUsedInRegularObj |-> FALSE, ExportDynamic |-> FALSE,
               Traced |-> TracedOnly(n), Body |-> NoBody])

\* a step of trace(n): the name had no entry and is traced only afterwards
isTraceStep(n) == n \notin DOMAIN Symtab /\ n \in DOMAIN Symtab' /\ Symtab'[n].Idx = -1

\* a step that created the Symbol of n
isCreation(n) == ~hasSym(n) /\ hasSym(n)'

\* C31: trace of a name that was never inserted creates no Symbol: SymVector
\* stays as it is and find returns nothing for the name; the first insert of
\* the name after that reports a new Symbol, which has the traced flag set
\* and the default attributes (weak binding, default visibility, the default
\* version); the Symbol of a name that was not traced is created with the
\* flag clear, and trace of a name that has a Symbol changes nothing.
TraceThenInsert ==
  /\ [](\A n \in TraceNames :
          /\ TracedOnly(n) =>
                /\ Symtab[n].Traced /\ find(Cur, n) = NoBody
                /\ \A i \in Slots : SymVector[i].key # n
          /\ hasSym(n) => SymOf(n).Traced = Symtab[n].Traced
          /\ InsertNow(n)
          /\ trace(Cur, n).SymVector = SymVector
          /\ n \in DOMAIN Symtab => trace(Cur, n) = Cur)
  /\ [](\A e \in Events :
          e.c.op \in {"addUndefined", "addRegular", "addShared", "addLazyArchive"} =>
            (e.WasInserted <=> e.idx0 = -1))
  /\ [][\A n \in TraceNames :
          /\ isTraceStep(n) => SymVector' = SymVector /\ log' = << >>
          /\ isCreation(n) =>
                /\ SymOf(n)'.Traced = TracedOnly(n)
                /\ SymOf(n)'.VersionId = Config.DefaultSymbolVersion
                /\ \E e \in Events' : e.c.Name = n /\ e.WasInserted
          /\ hasSym(n) => SymOf(n)'.Traced = SymOf(n).Traced]_vars

\* foo was traced and then inserted, bar was inserted without being traced
TraceThenInsertWitness ==
  /\ hasSym("foo") /\ SymOf("foo").Traced
  /\ hasSym("bar") /\ ~SymOf("bar").Traced
  /\ \E e \in Events : e.WasInserted


(* ------------------------ the XRay in-memory log ---------------------- *)
\* how often record r is in the log file
TimesWritten(r) == Cardinality({i \in 1..Len(xray.File) : xray.File[i] = r})

\* the records thread t logged, by number
RecordsOf(t) == 1..xray.logged[t]

\* thread t is between two calls or at the start of one
AtCallBoundary(t) == xray.pc[t] \in {"idle", "header", "body"}

\* C32: at the start and the end of every call 0 <= Offset < BuffLen and no
\* record was stored outside the buffer; between calls the buffer holds the
\* last Offset records and every earlier record is in the file once (the
\* full buffer was written and Offset reset); when the thread has exited
\* every record it logged is in the file exactly once.
EveryRecordOnce ==
  /\ ~xray.outside
  /\ \A t \in Threads :
       /\ AtCallBoundary(t) =>
             /\ xray.Offset[t] \in 0..(BuffLen - 1)
             /\ \A k \in RecordsOf(t) :
                   TimesWritten(<<t, k>>) =
                     (IF k <= xray.logged[t] - xray.Offset[t] THEN 1 ELSE 0)
       /\ xray.pc[t] = "done" =>
             \A k \in RecordsOf(t) : TimesWritten(<<t, k>>) = 1


\* the threads that are writing a batch, and the batch a record of the file
\* belongs to: the thread and the number of the buffer-full it was stored in
Writers == {t \in Threads : xray.pc[t] \in {"write", "exitwrite"}}

BatchOf(r) == <<r[1], (r[2] - 1) \div BuffLen>>

\* C33: the log file is empty or starts with the header, which is in it
\* once; at most one thread at a time writes a batch, and it holds LogMutex;
\* the records of one batch lie next to each other in the file, in the order
\* they were logged, with no record of another thread between them.
BatchesWhole ==
  /\ xray.File # << >> => xray.File[1] = Header /\ TimesWritten(Header) = 1
  /\ Cardinality(Writers) <= 1
  /\ \A t \in Writers : xray.LogMutex = t
  /\ \A i, j \in 2..Len(xray.File) :
       i < j /\ BatchOf(xray.File[i]) = BatchOf(xray.File[j]) =>
         /\ xray.File[i][2] < xray.File[j][2]
         /\ \A k \in i..j : BatchOf(xray.File[k]) = BatchOf(xray.File[i])

\* one thread is writing its full buffer while the other, whose buffer is
\* full or which is exiting, waits for LogMutex
BatchesWholeWitness ==
  \E t, u \in Threads :
    /\ xray.pc[t] = "write" /\ xray.w[t] = 1
    /\ xray.pc[u] \in {"lock", "exitlock"} /\ xray.Offset[u] > 0
    /\ Len(xray.File) >= 2

=============================================================================
